---------------------------- MODULE Spec2Model ----------------------------
(***************************************************************************)
(* komari-node-agent: the sampler (container-metrics.js, kept here as      *)
(* src/unnamed/part_000) and the reporting client (src/komari-agent.js).   *)
(*                                                                         *)
(* JavaScript values are modelled as follows.                              *)
(*   - a text (file content, token) is a record [ok, s]: ok = FALSE is     *)
(*     null/undefined, s is the sequence of its characters;                *)
(*   - an integer parsed from a text is a record [ok, neg, mag]: mag is    *)
(*     the sequence of its decimal digits without leading zeros, so that   *)
(*     values beyond 32-bit machine integers (the legacy                   *)
(*     "unlimited" sentinel 9223372036854771712) keep their magnitude;     *)
(*   - a floating point value is a record [k, n, d]: k = "null" is null,   *)
(*     otherwise the value is the fraction n/d in lowest terms, d >= 0,    *)
(*     where d = 0 stands for +Infinity (n = 1), -Infinity (n = -1) and    *)
(*     NaN (n = 0). Rounding of doubles and the sign of zero are not       *)
(*     modelled.                                                           *)
(***************************************************************************)
EXTENDS Integers, Sequences, FiniteSets, TLC

(***************************************************************************)
(* Bounds of the model.                                                    *)
(*   MaxClock   how many times Date.now() is read in one behaviour         *)
(*   MaxConns   how many sockets and pending reconnects exist at once      *)
(*   MaxJobs    how many asynchronous sampler calls are in flight at once  *)
(*   MaxInfoTimers  how many identity intervals are installed at once      *)
(*   ReconnectTicks the reconnect delay (reconnectIntervalMs), in ticks    *)
(*   AttemptsMod  the modulus of the count of reconnect attempts           *)
(***************************************************************************)
MaxClock == 3
MaxConns == 2
MaxJobs == 2
MaxInfoTimers == 2
ReconnectTicks == 2
AttemptsMod == 3

(***************************************************************************)
(* Texts.                                                                  *)
(***************************************************************************)
NL == "\n"
Missing == [ok |-> FALSE, s |-> <<>>]
Text(s) == [ok |-> TRUE, s |-> s]
Falsy(t) == ~t.ok \/ t.s = <<>>

IsSpace(c) == c \in {" ", NL, "\t"}
DigitChars == <<"0", "1", "2", "3", "4", "5", "6", "7", "8", "9">>
IsDigit(c) == \E i \in 1..10 : DigitChars[i] = c
DigitVal(c) == (CHOOSE i \in 1..10 : DigitChars[i] = c) - 1

RECURSIVE TrimLeft(_)
TrimLeft(s) ==
  IF s # <<>> /\ IsSpace(Head(s)) THEN TrimLeft(Tail(s)) ELSE s

RECURSIVE TrimRight(_)
TrimRight(s) ==
  IF s # <<>> /\ IsSpace(s[Len(s)])
  THEN TrimRight(SubSeq(s, 1, Len(s) - 1))
  ELSE s

\* String.prototype.trim
Trim(s) == TrimRight(TrimLeft(s))

\* the longest prefix of s whose characters satisfy neither separator test
RECURSIVE TakeUntil(_, _)
TakeUntil(s, seps) ==
  IF s = <<>> \/ Head(s) \in seps THEN <<>>
  ELSE <<Head(s)>> \o TakeUntil(Tail(s), seps)

RECURSIVE DropSeps(_, _)
DropSeps(s, seps) ==
  IF s # <<>> /\ Head(s) \in seps THEN DropSeps(Tail(s), seps) ELSE s

\* s.split(/\s+/): the maximal runs of non-space characters; "" gives [""]
RECURSIVE SplitRuns(_)
SplitRuns(s) ==
  LET tok  == TakeUntil(s, {" ", NL, "\t"})
      rest == SubSeq(s, Len(tok) + 1, Len(s))
  IN  IF rest = <<>> THEN <<tok>>
      ELSE <<tok>> \o SplitRuns(DropSeps(rest, {" ", NL, "\t"}))

SplitWS(s) == SplitRuns(s)

\* s.split('\n')
RECURSIVE SplitLines(_)
SplitLines(s) ==
  LET ln   == TakeUntil(s, {NL})
      rest == SubSeq(s, Len(ln) + 1, Len(s))
  IN  IF rest = <<>> THEN <<ln>>
      ELSE <<ln>> \o SplitLines(Tail(rest))

\* the i-th element of a destructured array: undefined when out of range
Elem(toks, i) == IF i <= Len(toks) THEN Text(toks[i]) ELSE Missing

(***************************************************************************)
(* Integers parsed from texts.                                             *)
(***************************************************************************)
NumNull == [ok |-> FALSE, neg |-> FALSE, mag |-> <<>>]

RECURSIVE StripZeros(_)
StripZeros(ds) ==
  IF ds # <<>> /\ Head(ds) = 0 THEN StripZeros(Tail(ds)) ELSE ds

RECURSIVE LeadingDigits(_)
LeadingDigits(s) ==
  IF s # <<>> /\ IsDigit(Head(s))
  THEN <<DigitVal(Head(s))>> \o LeadingDigits(Tail(s))
  ELSE <<>>

\* parseInt(s, 10): optional sign, then the leading decimal digits; NaN
\* (here NumNull) when there is none
ParseInt(s) ==
  LET t    == TrimLeft(s)
      neg  == t # <<>> /\ Head(t) = "-"
      body == IF t # <<>> /\ Head(t) \in {"-", "+"} THEN Tail(t) ELSE t
      ds   == LeadingDigits(body)
  IN  IF ds = <<>> THEN NumNull
      ELSE [ok |-> TRUE, neg |-> neg, mag |-> StripZeros(ds)]

\* _toInt
ToInt(x) ==
  IF ~x.ok THEN NumNull ELSE ParseInt(Trim(x.s))

RECURSIVE MagVal(_)
MagVal(ds) ==
  IF ds = <<>> THEN 0 ELSE 10 * MagVal(SubSeq(ds, 1, Len(ds) - 1)) + ds[Len(ds)]

\* the machine integer of a parsed number of at most nine digits
IntOf(x) == IF x.neg THEN 0 - MagVal(x.mag) ELSE MagVal(x.mag)

RECURSIVE NatDigits(_)
NatDigits(n) ==
  IF n = 0 THEN <<>> ELSE NatDigits(n \div 10) \o <<n % 10>>

NumOf(n) ==
  [ok |-> TRUE, neg |-> n < 0, mag |-> NatDigits(IF n < 0 THEN 0 - n ELSE n)]

NumZero == NumOf(0)
NumIsZero(x) == x.ok /\ x.mag = <<>>
NumIsPos(x) == x.ok /\ ~x.neg /\ x.mag # <<>>

RECURSIVE LexGE(_, _)
LexGE(a, b) ==
  IF a = <<>> THEN TRUE
  ELSE IF Head(a) # Head(b) THEN Head(a) > Head(b)
  ELSE LexGE(Tail(a), Tail(b))

\* a >= b for magnitudes
MagGE(a, b) == Len(a) > Len(b) \/ (Len(a) = Len(b) /\ LexGE(a, b))

\* a >= b for parsed numbers
NumGE(a, b) ==
  IF a.neg /\ ~b.neg THEN a.mag = <<>> /\ b.mag = <<>>
  ELSE IF ~a.neg /\ b.neg THEN TRUE
  ELSE IF a.neg THEN MagGE(b.mag, a.mag)
  ELSE MagGE(a.mag, b.mag)

RECURSIVE MagAddR(_, _, _)
MagAddR(a, b, carry) ==
  IF a = <<>> /\ b = <<>> THEN (IF carry = 0 THEN <<>> ELSE <<carry>>)
  ELSE LET x == IF a = <<>> THEN 0 ELSE a[Len(a)]
           y == IF b = <<>> THEN 0 ELSE b[Len(b)]
           t == x + y + carry
           ra == IF a = <<>> THEN <<>> ELSE SubSeq(a, 1, Len(a) - 1)
           rb == IF b = <<>> THEN <<>> ELSE SubSeq(b, 1, Len(b) - 1)
       IN  MagAddR(ra, rb, t \div 10) \o <<t % 10>>

\* a - b for magnitudes with a >= b
RECURSIVE MagSubR(_, _, _)
MagSubR(a, b, borrow) ==
  IF a = <<>> THEN <<>>
  ELSE LET y == IF b = <<>> THEN 0 ELSE b[Len(b)]
           t == a[Len(a)] - y - borrow
           rb == IF b = <<>> THEN <<>> ELSE SubSeq(b, 1, Len(b) - 1)
       IN  MagSubR(SubSeq(a, 1, Len(a) - 1), rb, IF t < 0 THEN 1 ELSE 0)
             \o <<IF t < 0 THEN t + 10 ELSE t>>

\* Math.max(0, a - b)
NumMax0Diff(a, b) ==
  IF ~NumGE(a, b) THEN NumZero
  ELSE IF ~a.neg /\ ~b.neg
       THEN [ok |-> TRUE, neg |-> FALSE, mag |-> StripZeros(MagSubR(a.mag, b.mag, 0))]
  ELSE IF ~a.neg
       THEN [ok |-> TRUE, neg |-> FALSE, mag |-> StripZeros(MagAddR(a.mag, b.mag, 0))]
  ELSE [ok |-> TRUE, neg |-> FALSE, mag |-> StripZeros(MagSubR(b.mag, a.mag, 0))]

\* x ?? 0
NumOr0(x) == IF x.ok THEN x ELSE NumZero

\* the characters of the decimal representation of a natural number
RECURSIVE DigitsText(_)
DigitsText(ds) ==
  IF ds = <<>> THEN <<>> ELSE <<DigitChars[Head(ds) + 1]>> \o DigitsText(Tail(ds))

NatText(n) == IF n = 0 THEN <<"0">> ELSE DigitsText(NatDigits(n))

(***************************************************************************)
(* Floating point values.                                                  *)
(***************************************************************************)
Abs(n) == IF n < 0 THEN 0 - n ELSE n
Sign(n) == IF n > 0 THEN 1 ELSE IF n < 0 THEN 0 - 1 ELSE 0

RECURSIVE GCD(_, _)
GCD(a, b) == IF b = 0 THEN a ELSE GCD(b, a % b)

RNull == [k |-> "null", n |-> 0, d |-> 1]

Rat(n, d) ==
  IF d = 0 THEN [k |-> "num", n |-> Sign(n), d |-> 0]
  ELSE LET g == GCD(Abs(n), Abs(d))
           s == Sign(d)
       IN  [k |-> "num", n |-> (s * n) \div g, d |-> (s * d) \div g]

RInt(n) == Rat(n, 1)
RIsNull(x) == x.k = "null"
RIsNaN(x) == x.k = "num" /\ x.d = 0 /\ x.n = 0
RIsFinite(x) == x.k = "num" /\ x.d > 0
RSub(a, b) == Rat(a.n * b.d - b.n * a.d, a.d * b.d)
RMul(a, b) == Rat(a.n * b.n, a.d * b.d)
RDiv(a, b) == Rat(a.n * b.d, a.d * b.n)
\* a < b, false when either side is NaN
RLess(a, b) ==
  /\ ~RIsNaN(a) /\ ~RIsNaN(b)
  /\ IF a.d = 0 /\ b.d = 0 THEN a.n < b.n
     ELSE IF a.d = 0 THEN a.n < 0
     ELSE IF b.d = 0 THEN b.n > 0
     ELSE a.n * b.d < b.n * a.d
\* Math.max(a, b), Math.min(a, b): NaN when either argument is NaN
RMax(a, b) == IF RIsNaN(a) \/ RIsNaN(b) THEN Rat(0, 0) ELSE IF RLess(a, b) THEN b ELSE a
RMin(a, b) == IF RIsNaN(a) \/ RIsNaN(b) THEN Rat(0, 0) ELSE IF RLess(b, a) THEN b ELSE a
\* Math.floor of a finite value; the infinities and NaN are kept
RFloor(x) == IF x.d = 0 THEN x ELSE RInt(x.n \div x.d)
\* x ?? y
ROr(x, y) == IF RIsNull(x) THEN y ELSE x

(***************************************************************************)
(* State.                                                                  *)
(*   config  the options of the sampler: includeLoopback, ramTotalFallback *)
(*   host    what the os module reports: cores (os.cpus().length || 1) and *)
(*           totalmem (os.totalmem())                                      *)
(*   cgroup  ContainerMetrics._cgroup: mode "none" is null; cpuacct, cpu   *)
(*           and mem tell whether the paths of that controller are set     *)
(*   resolves  how often _cgroup has been assigned                         *)
(*   prev    ContainerMetrics._prev: set = FALSE is null                   *)
(*   snap    the snapshot returned last, with the RateState and the clock  *)
(*           value it was computed from (snap.seen, snap.now)              *)
(*   frame   the payload of the last report built from a snapshot          *)
(*   info    the body built last by getBasicInfoForKomari                  *)
(***************************************************************************)
VARIABLES config, host, cgroup, resolves, prev, snap, frame, info

samplerVars == <<config, host, cgroup, resolves, prev, snap, frame, info>>

NoCgroup == [mode |-> "none", cpuacct |-> FALSE, cpu |-> FALSE, mem |-> FALSE]
NoPrev == [set |-> FALSE, at |-> 0, cpuUsageSeconds |-> RInt(0), totalRx |-> 0, totalTx |-> 0]

(***************************************************************************)
(* What the kernel files hold when a sample reads them. controllers tells  *)
(* whether /sys/fs/cgroup/cgroup.controllers exists, self which            *)
(* controllers /proc/self/cgroup lists with a path; the other fields are   *)
(* the contents of the accounting files (Missing: unreadable) and the rows *)
(* of /proc/net/dev.                                                       *)
(***************************************************************************)
MaxText == <<"m", "a", "x">>
UsageUsecKey == <<"u", "s", "a", "g", "e", "_", "u", "s", "e", "c">>

\* _detectCgroup
DetectCgroup(rd) ==
  IF rd.controllers
  THEN [mode |-> "v2", cpuacct |-> TRUE, cpu |-> TRUE, mem |-> TRUE]
  ELSE [mode |-> "v1",
        cpuacct |-> "cpuacct" \in rd.self,
        cpu |-> "cpu" \in rd.self,
        mem |-> "memory" \in rd.self]

\* _readFileSafe: null for a null path and for a failed read
ReadFileSafe(hasPath, content) == IF hasPath THEN content ELSE Missing

\* _parseKeyValue, then the lookup of one key: the value of the last line
\* that starts with the key; NumNull when no line does (undefined) or when
\* the value does not parse (null)
RECURSIVE KvLookup(_, _)
KvLookup(lines, key) ==
  IF lines = <<>> THEN NumNull
  ELSE LET toks == SplitWS(Trim(lines[Len(lines)]))
       IN  IF toks[1] = key THEN ToInt(Elem(toks, 2))
           ELSE KvLookup(SubSeq(lines, 1, Len(lines) - 1), key)

ParseKeyValue(text, key) ==
  IF Falsy(text) THEN NumNull ELSE KvLookup(SplitLines(Trim(text.s)), key)

\* _parseCpuMax
ParseCpuMax(text) ==
  IF Falsy(text) THEN RNull
  ELSE LET toks   == SplitWS(Trim(text.s))
           quota  == Elem(toks, 1)
           period == Elem(toks, 2)
           q      == ToInt(quota)
           per    == ToInt(period)
       IN  IF Falsy(quota) \/ Falsy(period) THEN RNull
           ELSE IF quota.s = MaxText THEN RNull
           ELSE IF q.ok /\ per.ok /\ NumIsPos(per) THEN Rat(IntOf(q), IntOf(per))
           ELSE RNull

\* Number.MAX_SAFE_INTEGER / 2 = 4503599627370495.5: an integer is at least
\* that iff it is at least 4503599627370496
HalfMaxSafe ==
  [ok |-> TRUE, neg |-> FALSE,
   mag |-> <<4, 5, 0, 3, 5, 9, 9, 6, 2, 7, 3, 7, 0, 4, 9, 6>>]

\* a substitute that ignores ramTotalFallback
MemFallbackAlwaysHost(cfg, h) == h.totalmem

\* the substitute for an unbounded or unreadable memory limit
MemFallback(cfg, h) ==
  IF cfg.ramTotalFallback = "host" THEN h.totalmem ELSE NumZero

\* the memory limit of the unified (v2) branch
MemLimitV2(memMax, cfg, h) ==
  LET lim == IF ~Falsy(memMax) /\ Trim(memMax.s) # MaxText THEN ToInt(memMax) ELSE NumNull
  IN  IF ~lim.ok \/ NumIsZero(lim) \/ ~NumIsPos(lim) THEN MemFallback(cfg, h) ELSE lim

\* the memory limit of the legacy (v1) branch
MemLimitV1(memLimit, cfg, h) ==
  LET lim == ToInt(memLimit)
  IN  IF ~lim.ok \/ NumIsZero(lim) \/ NumGE(lim, HalfMaxSafe)
      THEN MemFallback(cfg, h) ELSE lim

\* _getCgroupCpuMemSwap, given the resolved descriptor
GetCgroupCpuMemSwap(cg, rd, cfg, h) ==
  IF cg.mode = "v2"
  THEN LET usageUsec == NumOr0(ParseKeyValue(rd.cpuStat, UsageUsecKey))
       IN  [cpu  |-> [usageSeconds |-> Rat(IntOf(usageUsec), 1000000),
                      limitCores |-> ParseCpuMax(rd.cpuMax)],
            mem  |-> [usageBytes |-> ToInt(rd.memCur),
                      limitBytes |-> MemLimitV2(rd.memMax, cfg, h)],
            swap |-> [usageBytes |-> NumOr0(ToInt(rd.swapCur)),
                      limitBytes |->
                        IF ~Falsy(rd.swapMax) /\ Trim(rd.swapMax.s) # MaxText
                        THEN NumOr0(ToInt(rd.swapMax)) ELSE NumZero]]
  ELSE LET usageNs  == ReadFileSafe(cg.cpuacct, rd.usageNs)
           q        == ToInt(ReadFileSafe(cg.cpu, rd.quotaUs))
           per      == ToInt(ReadFileSafe(cg.cpu, rd.periodUs))
           memUsage == ToInt(ReadFileSafe(cg.mem, rd.memUsage))
           memLimit == MemLimitV1(ReadFileSafe(cg.mem, rd.memLimit), cfg, h)
           mswUsage == ToInt(ReadFileSafe(cg.mem, rd.memswUsage))
           mswLimit == ToInt(ReadFileSafe(cg.mem, rd.memswLimit))
       IN  [cpu  |-> [usageSeconds |-> Rat(IntOf(NumOr0(ToInt(usageNs))), 1000000000),
                      limitCores |->
                        IF q.ok /\ per.ok /\ NumIsPos(q) /\ NumIsPos(per)
                        THEN Rat(IntOf(q), IntOf(per)) ELSE RNull],
            mem  |-> [usageBytes |-> memUsage, limitBytes |-> memLimit],
            swap |-> [usageBytes |->
                        IF mswUsage.ok /\ memUsage.ok
                        THEN NumMax0Diff(mswUsage, memUsage) ELSE NumZero,
                      limitBytes |->
                        IF mswLimit.ok /\ memLimit.ok
                        THEN NumMax0Diff(mswLimit, memLimit) ELSE NumZero]]

\* rows kept whatever includeLoopback says, but never the loopback row
NetDevKeptNoLoopback(rows, cfg) ==
  {r \in rows : r.iface # "lo" /\ r.ncols >= 16}

\* _getNetDev: the counters of the rows that are kept, by interface
NetDevKept(rows, cfg) ==
  {r \in rows : (cfg.includeLoopback \/ r.iface # "lo") /\ r.ncols >= 16}

RECURSIVE SumOver(_, _)
SumOver(rows, field) ==
  IF rows = {} THEN 0
  ELSE LET r == CHOOSE x \in rows : TRUE
       IN  r[field] + SumOver(rows \ {r}, field)

(***************************************************************************)
(* Rates.                                                                  *)
(***************************************************************************)
\* dt = (now - this._prev.at) / 1000
Elapsed(p, now) == Rat(now - p.at, 1000)

\* the test without `if (this._prev)`
HasElapsedNoPrevCheck(p, now) == RLess(RInt(0), Elapsed(p, now))

\* the test with dt >= 0 in place of dt > 0
HasElapsedOrZero(p, now) == p.set /\ ~RLess(Elapsed(p, now), RInt(0))

\* if (this._prev) { ... if (dt > 0) { ... } }
HasElapsed(p, now) == p.set /\ RLess(RInt(0), Elapsed(p, now))

\* the rate returned as computed, without Math.max
NetRateNoFloor(x) == x

\* Math.max(0, rxBps), Math.max(0, txBps)
NetRate(x) == RMax(RInt(0), x)

\* _computeRates: what it returns
ComputeRates(p, now, cg, kept, h) ==
  LET hostCores  == RInt(h.cores)
      limitCores == ROr(cg.cpu.limitCores, hostCores)
      dt         == Elapsed(p, now)
      dCpu       == RSub(cg.cpu.usageSeconds, p.cpuUsageSeconds)
      Result(has, totalRx, totalTx) ==
        [rxBps |-> NetRate(IF has THEN RDiv(RInt(totalRx - p.totalRx), dt) ELSE RInt(0)),
         txBps |-> NetRate(IF has THEN RDiv(RInt(totalTx - p.totalTx), dt) ELSE RInt(0)),
         totalRxBytes |-> totalRx,
         totalTxBytes |-> totalTx,
         cpuPercentOfHost |->
           IF has THEN RMul(RDiv(dCpu, RMul(dt, hostCores)), RInt(100)) ELSE RNull,
         cpuPercentOfLimit |->
           IF has THEN RMul(RDiv(dCpu, RMul(dt, limitCores)), RInt(100)) ELSE RNull]
  IN  Result(HasElapsed(p, now), SumOver(kept, "rxBytes"), SumOver(kept, "txBytes"))

\* _computeRates: the RateState it leaves in this._prev
NextPrev(now, cg, c) ==
  [set |-> TRUE, at |-> now, cpuUsageSeconds |-> cg.cpu.usageSeconds,
   totalRx |-> c.totalRxBytes, totalTx |-> c.totalTxBytes]

\* what the read of the memory limit file returned: memory.max of the
\* unified interface, memory.limit_in_bytes of the legacy one
MemLimitRead(desc, rd) ==
  IF desc.mode = "v2" THEN rd.memMax ELSE ReadFileSafe(desc.mem, rd.memLimit)

\* snapshot: the object it returns, from what _getCgroupCpuMemSwap (cg),
\* _getNetDev (kept) and _computeRates (c) gave it; at, seen, limRead,
\* mswRead and netRead record the clock value, the RateState, the memory
\* limit text, the text of memory.memsw.limit_in_bytes (legacy interface)
\* and the rows of /proc/net/dev it was computed from
SnapshotOf(p, desc, now, rd, cg, kept, c) ==
  [valid |-> TRUE,
   at |-> now,
   seen |-> p,
   limRead |-> MemLimitRead(desc, rd),
   mswRead |-> ReadFileSafe(desc.mem, rd.memswLimit),
   netRead |-> rd.netDev,
   cgroupMode |-> desc.mode,
   memLimitBytes |-> cg.mem.limitBytes,
   swapLimitBytes |-> cg.swap.limitBytes,
   usagePercentOfLimit |-> c.cpuPercentOfLimit,
   usagePercentOfHost |-> c.cpuPercentOfHost,
   limitCores |-> cg.cpu.limitCores,
   ramTotal |-> cg.mem.limitBytes,
   ramUsed |-> cg.mem.usageBytes,
   swapTotal |-> cg.swap.limitBytes,
   swapUsed |-> cg.swap.usageBytes,
   upBps |-> c.txBps,
   downBps |-> c.rxBps,
   totalUpBytes |-> c.totalTxBytes,
   totalDownBytes |-> c.totalRxBytes,
   kept |-> kept]

\* snapshot: the gathering and the rate computation of one call, as the
\* object returned (snap) and the RateState left behind (prev)
Snapshot(p, desc, now, rd, cfg, h) ==
  LET Gathered(cg, kept) ==
        LET Computed(c) ==
              [snap |-> SnapshotOf(p, desc, now, rd, cg, kept, c),
               prev |-> NextPrev(now, cg, c)]
        IN  Computed(ComputeRates(p, now, cg, kept, h))
  IN  Gathered(GetCgroupCpuMemSwap(desc, rd, cfg, h), NetDevKept(rd.netDev, cfg))

NoSnap ==
  [valid |-> FALSE, at |-> 0, seen |-> NoPrev, limRead |-> Missing,
   mswRead |-> Missing,
   netRead |-> {},
   cgroupMode |-> "none",
   memLimitBytes |-> NumNull, swapLimitBytes |-> NumNull,
   usagePercentOfLimit |-> RNull, usagePercentOfHost |-> RNull,
   limitCores |-> RNull, ramTotal |-> NumNull, ramUsed |-> NumNull,
   swapTotal |-> NumNull, swapUsed |-> NumNull, upBps |-> RNull,
   downBps |-> RNull, totalUpBytes |-> 0, totalDownBytes |-> 0, kept |-> {}]

\* getBasicInfoForKomari: the memory fields of the body it returns, with
\* the mode and the memory limit text they were computed from; sent tells
\* how the upload of the body ended ("none": it was not uploaded)
BasicInfoOf(desc, rd, cfg, h) ==
  LET Body(c) ==
        [valid |-> TRUE,
         sent |-> "none",
         cgroupMode |-> desc.mode,
         limRead |-> MemLimitRead(desc, rd),
         mem_total |-> NumOr0(c.mem.limitBytes),
         swap_total |-> NumOr0(c.swap.limitBytes)]
  IN  Body(GetCgroupCpuMemSwap(desc, rd, cfg, h))

NoInfo ==
  [valid |-> FALSE, sent |-> "none", cgroupMode |-> "none", limRead |-> Missing,
   mem_total |-> NumNull, swap_total |-> NumNull]

(***************************************************************************)
(* The report built from a snapshot (KomariAgent._sendReport).             *)
(***************************************************************************)
\* _clamp
Clamp(v, min, max) == RMin(RInt(max), RMax(RInt(min), v))

\* JSON.stringify of a number: null for NaN and the infinities
JsonNumber(x) == IF RIsFinite(x) THEN x ELSE RNull

\* the payload of _sendReport as JSON.stringify writes it
PayloadOf(sn) ==
  [valid |-> TRUE,
   cpuUsage |-> JsonNumber(Clamp(ROr(sn.usagePercentOfLimit, RInt(0)), 0, 999)),
   ramTotal |-> NumOr0(sn.ramTotal),
   ramUsed |-> NumOr0(sn.ramUsed),
   swapTotal |-> NumOr0(sn.swapTotal),
   swapUsed |-> NumOr0(sn.swapUsed),
   netUp |-> JsonNumber(RMax(RInt(0), RFloor(ROr(sn.upBps, RInt(0))))),
   netDown |-> JsonNumber(RMax(RInt(0), RFloor(ROr(sn.downBps, RInt(0))))),
   totalUp |-> sn.totalUpBytes,
   totalDown |-> sn.totalDownBytes]

NoFrame ==
  [valid |-> FALSE, cpuUsage |-> RNull, ramTotal |-> NumNull, ramUsed |-> NumNull,
   swapTotal |-> NumNull, swapUsed |-> NumNull, netUp |-> RNull, netDown |-> RNull,
   totalUp |-> 0, totalDown |-> 0]

(***************************************************************************)
(* Readings the specifications draw from.                                  *)
(***************************************************************************)
Chars(n) == NatText(n)
CpuStatText(usec) == Text(UsageUsecKey \o <<" ">> \o Chars(usec) \o <<NL>>)
CpuMaxText(q, per) == Text(Chars(q) \o <<" ">> \o Chars(per) \o <<NL>>)
CpuMaxUnlimited == Text(MaxText \o <<" ">> \o Chars(100000) \o <<NL>>)
NumText(n) == Text(Chars(n) \o <<NL>>)
\* the limit the legacy interface shows for "unlimited"
V1Unlimited ==
  Text(<<"9", "2", "2", "3", "3", "7", "2", "0", "3", "6",
         "8", "5", "4", "7", "7", "1", "7", "1", "2", NL>>)

Row(iface, ncols, rx, tx) ==
  [iface |-> iface, ncols |-> ncols, rxBytes |-> rx, txBytes |-> tx]

NoReading ==
  [controllers |-> FALSE, self |-> {},
   cpuStat |-> Missing, cpuMax |-> Missing, memCur |-> Missing, memMax |-> Missing,
   swapCur |-> Missing, swapMax |-> Missing,
   usageNs |-> Missing, quotaUs |-> Missing, periodUs |-> Missing,
   memUsage |-> Missing, memLimit |-> Missing, memswUsage |-> Missing,
   memswLimit |-> Missing, netDev |-> {}]

NetTables ==
  {{Row("lo", 16, 70, 70), Row("eth0", 16, rx, tx), Row("eth1", 16, 0, 40),
    Row("bad0", 9, 5, 5)} :
     <<rx, tx>> \in {<<1000, 4500>>, <<3001, 500>>}}

\* readings of the unified interface that differ in what the rates read
RateReadingsV2 ==
  {[NoReading EXCEPT !.controllers = TRUE,
                     !.cpuStat = CpuStatText(usec),
                     !.cpuMax = cpuMax,
                     !.memCur = NumText(4096),
                     !.memMax = NumText(65536),
                     !.netDev = net] :
     usec \in {0, 30000},
     cpuMax \in {CpuMaxUnlimited, CpuMaxText(0, 100000), CpuMaxText(50000, 100000)},
     net \in NetTables}

\* readings of the legacy interface that differ in what the rates read
RateReadingsV1 ==
  {[NoReading EXCEPT !.self = {"cpuacct", "cpu", "memory"},
                     !.usageNs = NumText(ns),
                     !.quotaUs = NumText(50000),
                     !.periodUs = NumText(100000),
                     !.netDev = net] :
     ns \in {0, 30000000}, net \in NetTables}

RateReadings == RateReadingsV2 \cup RateReadingsV1

\* readings that differ in the memory limit: of the unified interface, of
\* the legacy interface, and of a host where neither is found
LimitReadingsV2 ==
  {[NoReading EXCEPT !.controllers = TRUE,
                     !.cpuStat = CpuStatText(0),
                     !.cpuMax = CpuMaxUnlimited,
                     !.memCur = NumText(4096),
                     !.memMax = memMax,
                     !.swapCur = NumText(0),
                     !.swapMax = Text(MaxText \o <<NL>>)] :
     memMax \in {Missing, Text(MaxText), Text(MaxText \o <<NL>>),
                 Text(<<" ">> \o MaxText \o <<NL>>), Text(<<>>),
                 NumText(0), NumText(65536)}}

LimitReadingsV1 ==
  {[NoReading EXCEPT !.self = self,
                     !.usageNs = NumText(0),
                     !.memUsage = NumText(4096),
                     !.memLimit = memLimit,
                     !.memswUsage = NumText(4096),
                     !.memswLimit = memswLimit] :
     self \in {{}, {"cpuacct", "cpu"}, {"cpuacct", "cpu", "memory"}},
     memLimit \in {Missing, V1Unlimited, NumText(65536)},
     memswLimit \in {V1Unlimited, NumText(131072)}}

LimitReadings == LimitReadingsV2 \cup LimitReadingsV1

\* Date.now() at the samples of the sequential specifications
SampleTimes == {0, 1000, 2000}
LimitTimes == {1000}

\* what the files hold while the agent runs: the unified interface, idle
AgentReading ==
  [NoReading EXCEPT !.controllers = TRUE,
                    !.cpuStat = CpuStatText(0),
                    !.cpuMax = CpuMaxUnlimited,
                    !.memCur = NumText(4096),
                    !.memMax = Text(MaxText \o <<NL>>),
                    !.netDev = {Row("eth0", 16, 1000, 500)}]

DefaultConfig == [includeLoopback |-> FALSE, ramTotalFallback |-> "host"]
DefaultHost == [cores |-> 2, totalmem |-> NumOf(8192)]

(***************************************************************************)
(* The reporting client (KomariAgent).                                     *)
(*   stopped      this._stopped                                            *)
(*   ws           this._ws: 0 is null, otherwise the socket it refers to   *)
(*   conn         the readyState of every socket: "connecting", "open",    *)
(*                "closing", and "closed" after its close event (a closed  *)
(*                socket's slot is used again for the next socket)         *)
(*   reportTimer  this._reportTimer refers to a running interval           *)
(*   infoTimer    this._infoTimer refers to a running interval             *)
(*   infoIntervals  how many identity intervals are running                *)
(*   reconn       the pending reconnect timeouts, oldest first: left is    *)
(*                the time left until it is due, age the time since it was *)
(*                set (counted up to the delay)                            *)
(*   jobs         the asynchronous calls in flight: kind "warm" is start() *)
(*                awaiting its warmup snapshot, "infoStart" start()        *)
(*                awaiting its uploadBasicInfo(), "infoTick" an            *)
(*                uploadBasicInfo() of the identity interval, "push" a     *)
(*                _sendReport() awaiting its snapshot; pc "detect" is the  *)
(*                await of _detectCgroup, "gather" the await of the reads; *)
(*                now is the Date.now() the snapshot took; sawOpen tells   *)
(*                whether the entry check of _sendReport saw an open       *)
(*                socket                                                   *)
(*   clock        the last value Date.now() returned: every read returns a *)
(*                greater one                                              *)
(*   wire         the calls of this._ws.send: st is the readyState of the  *)
(*                socket this._ws referred to ("null": none), handed tells *)
(*                whether the frame went to the transport                  *)
(*   awaitingOpen a close event arrived while running and no socket has    *)
(*                opened since                                             *)
(*   attempts     the number of connection attempts made by reconnect      *)
(*                timeouts, counted modulo AttemptsMod                     *)
(***************************************************************************)
VARIABLES stopped, ws, conn, reportTimer, infoTimer, infoIntervals, reconn,
          jobs, clock, wire, awaitingOpen, attempts

agentVars == <<stopped, ws, conn, reportTimer, infoTimer, infoIntervals, reconn,
               jobs, clock, wire, awaitingOpen, attempts>>

(***************************************************************************)
(* The process (index.js) and the parts of a snapshot beside the rates.    *)
(*   proc   "running" until process.exit is called, then "exited"          *)
(*   fault  the failure that reached a top-level handler last: "none",     *)
(*          "exception" (uncaughtException), "rejection"                   *)
(*          (unhandledRejection), "start" (agent.start() rejected)         *)
(*   scan   a call of _getProcessAndThreads: the entries readdir listed,   *)
(*          the numeric ones (pids), the shared index idx, the two         *)
(*          counters, for every worker the entry whose status it is        *)
(*          reading (0: the worker has returned or was never made), and    *)
(*          for every pid how often a read of its status was started       *)
(*   full   the disk, connection, process and uptime fields of the         *)
(*          snapshot returned last, with the sources they were read from   *)
(***************************************************************************)
VARIABLES proc, fault, scan, full

sideVars == <<proc, fault, scan, full>>

vars == <<config, host, cgroup, resolves, prev, snap, frame, info,
          stopped, ws, conn, reportTimer, infoTimer, infoIntervals, reconn,
          jobs, clock, wire, awaitingOpen, attempts, proc, fault, scan, full>>

ConnIds == 1..MaxConns
JobIds == 1..MaxJobs
IdleJob == [kind |-> "idle", pc |-> "idle", now |-> 0, sawOpen |-> FALSE]

\* the state after the constructors of KomariAgent and ContainerMetrics
SamplerInit ==
  /\ cgroup = NoCgroup
  /\ resolves = 0
  /\ prev = NoPrev
  /\ snap = NoSnap
  /\ frame = NoFrame
  /\ info = NoInfo

\* the concurrency of _getProcessAndThreads (50 in the code), scaled to the
\* length of the listings
Concurrency == 2
MaxEntries == 4
WorkerIds == 1..MaxEntries

NoScan ==
  [phase |-> "idle", listing |-> <<>>, pids |-> <<>>, idx |-> 0,
   processCount |-> 0, threadCount |-> 0, reading |-> [w \in WorkerIds |-> 0],
   reads |-> <<>>]

NoFull ==
  [called |-> FALSE, valid |-> FALSE, src |-> [policy |-> "none"],
   diskTotal |-> NumNull, diskUsed |-> NumNull, tcp |-> 0, udp |-> 0, unix |-> 0,
   processCount |-> 0, threadCount |-> 0, uptimeSeconds |-> RNull]

\* index.js has run to its last line, and nothing has failed
SideInit ==
  /\ proc = "running"
  /\ fault = "none"
  /\ scan = NoScan
  /\ full = NoFull

AgentInit ==
  /\ stopped = TRUE
  /\ ws = 0
  /\ conn = [c \in ConnIds |-> "closed"]
  /\ reportTimer = FALSE
  /\ infoTimer = FALSE
  /\ infoIntervals = 0
  /\ reconn = <<>>
  /\ jobs = [j \in JobIds |-> IdleJob]
  /\ clock = 0
  /\ wire = {}
  /\ awaitingOpen = FALSE
  /\ attempts = 0

Init ==
  /\ config = DefaultConfig
  /\ host = DefaultHost
  /\ SamplerInit
  /\ AgentInit
  /\ SideInit

FreeJobs == {j \in JobIds : jobs[j].kind = "idle"}
FreeJob == CHOOSE j \in FreeJobs : \A k \in FreeJobs : j <= k
FreeConns == {c \in ConnIds : conn[c] = "closed"}
FreeConn == CHOOSE c \in FreeConns : \A k \in FreeConns : c <= k
LiveConns == ConnIds \ FreeConns
StartsInFlight == {j \in JobIds : jobs[j].kind \in {"warm", "infoStart"}}

\* a call of snapshot() or getBasicInfoForKomari() up to its first await:
\* the job it leaves in flight
CallSnapshot(kind, sawOpen) ==
  IF cgroup.mode = "none"
  THEN [kind |-> kind, pc |-> "detect", now |-> 0, sawOpen |-> sawOpen]
  ELSE [kind |-> kind, pc |-> "gather", now |-> clock + 1, sawOpen |-> sawOpen]

CallBasicInfo(kind) ==
  [kind |-> kind, pc |-> IF cgroup.mode = "none" THEN "detect" ELSE "gather",
   now |-> 0, sawOpen |-> FALSE]

\* the clock after a call of snapshot() up to its first await
ClockAfterCall == IF cgroup.mode = "none" THEN clock ELSE clock + 1

\* the calls of snapshot() that have yet to read the clock
ClockOwed == {j \in JobIds : jobs[j].pc = "detect" /\ jobs[j].kind \in {"warm", "push"}}

\* one more snapshot() may be called within the bounds
MaySample == FreeJobs # {} /\ clock + Cardinality(ClockOwed) < MaxClock

\* the entry check of _sendReport with the readyState test left out
CanSendAnyState(w, cn) == w # 0

\* the entry check of _sendReport: this._ws && this._ws.readyState === OPEN
CanSend(w, cn) == w # 0 /\ cn[w] = "open"

\* a reconnect timeout set with no delay
ReconnectDelayNone == ReconnectTicks - ReconnectTicks

\* the delay _scheduleReconnect passes to setTimeout
ReconnectDelay == ReconnectTicks

\* a timeout callback that never connects
ReconnectConnectsNever == FALSE

\* whether the callback of the reconnect timeout connects
ReconnectConnects == ~stopped

\* how uploadBasicInfo() ends: well, with a network error of fetch, or with
\* a response that is not 2xx (the last two throw)
UploadOutcomes == {"ok", "network", "http"}

\* a caller of uploadBasicInfo() that calls it again when it has thrown
AfterUploadRetry(outcome) ==
  IF outcome = "ok" THEN IdleJob ELSE CallBasicInfo("infoTick")

\* what a caller of uploadBasicInfo() leaves in flight when the call has
\* ended: the .catch of start() and of the identity interval only logs
AfterUpload(outcome) == IdleJob

\* start(): up to the await of the warmup snapshot
Start ==
  /\ stopped
  /\ MaySample
  /\ Cardinality(LiveConns) + Len(reconn) + Cardinality(StartsInFlight) < MaxConns
  /\ infoIntervals + Cardinality(StartsInFlight) < MaxInfoTimers
  /\ stopped' = FALSE
  /\ jobs' = [jobs EXCEPT ![FreeJob] = CallSnapshot("warm", FALSE)]
  /\ clock' = ClockAfterCall
  /\ UNCHANGED <<sideVars, config, host, cgroup, resolves, prev, snap, frame, info, ws, conn,
                 reportTimer, infoTimer, infoIntervals, reconn, wire, awaitingOpen,
                 attempts>>

\* stop()
Stop ==
  /\ ~stopped
  /\ stopped' = TRUE
  /\ infoIntervals' = IF infoTimer THEN infoIntervals - 1 ELSE infoIntervals
  /\ infoTimer' = FALSE
  /\ reportTimer' = FALSE
  /\ conn' = IF ws # 0 /\ conn[ws] \in {"connecting", "open"}
             THEN [conn EXCEPT ![ws] = "closing"] ELSE conn
  /\ ws' = 0
  /\ UNCHANGED <<sideVars, config, host, cgroup, resolves, prev, snap, frame, info, reconn,
                 jobs, clock, wire, awaitingOpen, attempts>>

\* the await of _detectCgroup ends: this._cgroup is assigned, and snapshot()
\* goes on to read the clock and start its reads
DetectDone(j, rd) ==
  /\ jobs[j].pc = "detect"
  /\ cgroup' = DetectCgroup(rd)
  /\ resolves' = resolves + 1
  /\ IF jobs[j].kind \in {"warm", "push"}
     THEN /\ jobs' = [jobs EXCEPT ![j].pc = "gather", ![j].now = clock + 1]
          /\ clock' = clock + 1
     ELSE /\ jobs' = [jobs EXCEPT ![j].pc = "gather"]
          /\ clock' = clock
  /\ UNCHANGED <<sideVars, config, host, prev, snap, frame, info, stopped, ws, conn,
                 reportTimer, infoTimer, infoIntervals, reconn, wire, awaitingOpen,
                 attempts>>

\* the warmup snapshot of start() returns, and start() calls uploadBasicInfo()
WarmDone(j, rd) ==
  /\ jobs[j].kind = "warm" /\ jobs[j].pc = "gather"
  /\ \E r \in {Snapshot(prev, cgroup, jobs[j].now, rd, config, host)} :
       snap' = r.snap /\ prev' = r.prev
  /\ jobs' = [jobs EXCEPT ![j] = CallBasicInfo("infoStart")]
  /\ UNCHANGED <<sideVars, config, host, cgroup, resolves, frame, info, stopped, ws, conn,
                 reportTimer, infoTimer, infoIntervals, reconn, clock, wire,
                 awaitingOpen, attempts>>

\* the warmup snapshot of start() throws: start() logs and calls
\* uploadBasicInfo()
WarmFail(j) ==
  /\ jobs[j].kind = "warm" /\ jobs[j].pc = "gather"
  /\ jobs' = [jobs EXCEPT ![j] = CallBasicInfo("infoStart")]
  /\ UNCHANGED <<sideVars, config, host, cgroup, resolves, prev, snap, frame, info, stopped,
                 ws, conn, reportTimer, infoTimer, infoIntervals, reconn, clock, wire,
                 awaitingOpen, attempts>>

\* the uploadBasicInfo() of start() ends, well or not: start() installs the
\* identity interval and calls _connectWebSocket()
InfoStartDone(j, rd, outcome) ==
  /\ jobs[j].kind = "infoStart" /\ jobs[j].pc = "gather"
  /\ info' = [BasicInfoOf(cgroup, rd, config, host) EXCEPT !.sent = outcome]
  /\ jobs' = [jobs EXCEPT ![j] = AfterUpload(outcome)]
  /\ infoTimer' = TRUE
  /\ infoIntervals' = infoIntervals + 1
  /\ IF stopped
     THEN UNCHANGED <<ws, conn>>
     ELSE /\ conn' = [conn EXCEPT ![FreeConn] = "connecting"]
          /\ ws' = FreeConn
  /\ UNCHANGED <<sideVars, config, host, cgroup, resolves, prev, snap, frame, stopped,
                 reportTimer, reconn, clock, wire, awaitingOpen, attempts>>

\* a tick of an identity interval: uploadBasicInfo() up to its first await
InfoTick ==
  /\ infoIntervals > 0
  /\ FreeJobs # {}
  /\ jobs' = [jobs EXCEPT ![FreeJob] = CallBasicInfo("infoTick")]
  /\ UNCHANGED <<sideVars, config, host, cgroup, resolves, prev, snap, frame, info, stopped,
                 ws, conn, reportTimer, infoTimer, infoIntervals, reconn, clock, wire,
                 awaitingOpen, attempts>>

\* an uploadBasicInfo() that builds its body from a call of snapshot()
InfoTickDoneSampling(j, rd, outcome) ==
  /\ jobs[j].kind = "infoTick" /\ jobs[j].pc = "gather"
  /\ info' = [BasicInfoOf(cgroup, rd, config, host) EXCEPT !.sent = outcome]
  /\ prev' = Snapshot(prev, cgroup, jobs[j].now, rd, config, host).prev
  /\ jobs' = [jobs EXCEPT ![j] = AfterUpload(outcome)]
  /\ UNCHANGED <<sideVars, config, host, cgroup, resolves, snap, frame, stopped, ws,
                 conn, reportTimer, infoTimer, infoIntervals, reconn, clock, wire,
                 awaitingOpen, attempts>>

\* the uploadBasicInfo() of a tick ends, well or not
InfoTickDone(j, rd, outcome) ==
  /\ jobs[j].kind = "infoTick" /\ jobs[j].pc = "gather"
  /\ info' = [BasicInfoOf(cgroup, rd, config, host) EXCEPT !.sent = outcome]
  /\ jobs' = [jobs EXCEPT ![j] = AfterUpload(outcome)]
  /\ UNCHANGED <<sideVars, config, host, cgroup, resolves, prev, snap, frame, stopped, ws,
                 conn, reportTimer, infoTimer, infoIntervals, reconn, clock, wire,
                 awaitingOpen, attempts>>

\* the 'open' event of a socket: the push interval is installed anew and
\* _sendReport() is called
WsOpen(c) ==
  /\ conn[c] = "connecting"
  /\ LET cn == [conn EXCEPT ![c] = "open"]
     IN  /\ conn' = cn
         /\ IF CanSend(ws, cn)
            THEN /\ MaySample
                 /\ jobs' = [jobs EXCEPT ![FreeJob] = CallSnapshot("push", cn[ws] = "open")]
                 /\ clock' = ClockAfterCall
            ELSE UNCHANGED <<jobs, clock>>
  /\ reportTimer' = TRUE
  /\ awaitingOpen' = FALSE
  /\ UNCHANGED <<sideVars, config, host, cgroup, resolves, prev, snap, frame, info, stopped,
                 ws, infoTimer, infoIntervals, reconn, wire, attempts>>

\* the 'error' event of a socket: the handler closes it
WsError(c) ==
  /\ conn[c] \in {"connecting", "open"}
  /\ conn' = [conn EXCEPT ![c] = "closing"]
  /\ UNCHANGED <<sideVars, config, host, cgroup, resolves, prev, snap, frame, info, stopped,
                 ws, reportTimer, infoTimer, infoIntervals, reconn, jobs, clock, wire,
                 awaitingOpen, attempts>>

\* the 'close' event of a socket: _scheduleReconnect()
WsClose(c) ==
  /\ conn[c] \in {"open", "closing"}
  /\ conn' = [conn EXCEPT ![c] = "closed"]
  /\ IF stopped
     THEN UNCHANGED <<reportTimer, reconn, awaitingOpen>>
     ELSE /\ reportTimer' = FALSE
          /\ reconn' = Append(reconn, [left |-> ReconnectDelay, age |-> 0])
          /\ awaitingOpen' = TRUE
  /\ UNCHANGED <<sideVars, config, host, cgroup, resolves, prev, snap, frame, info, stopped,
                 ws, infoTimer, infoIntervals, jobs, clock, wire, attempts>>

\* time passes for the pending reconnect timeouts
TimePasses ==
  /\ \E i \in 1..Len(reconn) : reconn[i].left > 0 \/ reconn[i].age < ReconnectTicks
  /\ reconn' = [i \in 1..Len(reconn) |->
                  [left |-> IF reconn[i].left > 0 THEN reconn[i].left - 1 ELSE 0,
                   age |-> IF reconn[i].age < ReconnectTicks
                           THEN reconn[i].age + 1 ELSE reconn[i].age]]
  /\ UNCHANGED <<sideVars, config, host, cgroup, resolves, prev, snap, frame, info, stopped,
                 ws, conn, reportTimer, infoTimer, infoIntervals, jobs, clock, wire,
                 awaitingOpen, attempts>>

\* a reconnect timeout fires: _connectWebSocket() unless stopped
ReconnectFire ==
  /\ reconn # <<>>
  /\ Head(reconn).left = 0
  /\ reconn' = Tail(reconn)
  /\ IF ReconnectConnects
     THEN /\ conn' = [conn EXCEPT ![FreeConn] = "connecting"]
          /\ ws' = FreeConn
          /\ attempts' = (attempts + 1) % AttemptsMod
     ELSE UNCHANGED <<ws, conn, attempts>>
  /\ UNCHANGED <<sideVars, config, host, cgroup, resolves, prev, snap, frame, info, stopped,
                 reportTimer, infoTimer, infoIntervals, jobs, clock, wire,
                 awaitingOpen>>

\* a tick of the push interval: _sendReport() up to its first await
ReportTick ==
  /\ reportTimer
  /\ IF CanSend(ws, conn)
     THEN /\ MaySample
          /\ jobs' = [jobs EXCEPT ![FreeJob] = CallSnapshot("push", conn[ws] = "open")]
          /\ clock' = ClockAfterCall
     ELSE UNCHANGED <<jobs, clock>>
  /\ UNCHANGED <<sideVars, config, host, cgroup, resolves, prev, snap, frame, info, stopped,
                 ws, conn, reportTimer, infoTimer, infoIntervals, reconn, wire,
                 awaitingOpen, attempts>>

\* the snapshot of a _sendReport() returns: the payload is built and handed
\* to this._ws.send, which throws when this._ws is null or still connecting
\* and drops the frame when the socket is closing or closed
PushDone(j, rd) ==
  /\ jobs[j].kind = "push" /\ jobs[j].pc = "gather"
  /\ \E r \in {Snapshot(prev, cgroup, jobs[j].now, rd, config, host)} :
       snap' = r.snap /\ prev' = r.prev
  /\ frame' = PayloadOf(snap')
  /\ wire' = wire \cup {[st |-> IF ws = 0 THEN "null" ELSE conn[ws],
                          handed |-> ws # 0 /\ conn[ws] = "open"]}
  /\ jobs' = [jobs EXCEPT ![j] = IdleJob]
  /\ UNCHANGED <<sideVars, config, host, cgroup, resolves, info, stopped, ws, conn,
                 reportTimer, infoTimer, infoIntervals, reconn, clock, awaitingOpen,
                 attempts>>

Next ==
  \/ Start
  \/ Stop
  \/ \E j \in JobIds : DetectDone(j, AgentReading)
  \/ \E j \in JobIds : WarmDone(j, AgentReading)
  \/ \E j \in JobIds : InfoStartDone(j, AgentReading, "ok")
  \/ InfoTick
  \/ \E j \in JobIds : InfoTickDone(j, AgentReading, "ok")
  \/ \E c \in ConnIds : WsOpen(c)
  \/ \E c \in ConnIds : WsError(c)
  \/ \E c \in ConnIds : WsClose(c)
  \/ TimePasses
  \/ ReconnectFire
  \/ ReportTick
  \/ \E j \in JobIds : PushDone(j, AgentReading)

Spec == Init /\ [][Next]_vars

\* timeouts that are due fire, and time passes
FairSpec == Spec /\ WF_vars(TimePasses) /\ WF_vars(ReconnectFire)

\* start(), stop() and the identity schedule when the warmup snapshot and
\* the uploads may fail; the sockets only close
IdentityNext ==
  \/ Start
  \/ Stop
  \/ \E j \in JobIds : DetectDone(j, AgentReading)
  \/ \E j \in JobIds : WarmDone(j, AgentReading)
  \/ \E j \in JobIds : WarmFail(j)
  \/ \E j \in JobIds, o \in UploadOutcomes : InfoStartDone(j, AgentReading, o)
  \/ InfoTick
  \/ \E j \in JobIds, o \in UploadOutcomes : InfoTickDone(j, AgentReading, o)
  \/ \E c \in ConnIds : WsError(c)
  \/ \E c \in ConnIds : WsClose(c)

IdentitySpec == Init /\ [][IdentityNext]_vars

(***************************************************************************)
(* The top-level handlers of index.js.                                     *)
(***************************************************************************)
\* an exception that nothing catches reaches the 'uncaughtException'
\* handler, which logs it and calls process.exit(1)
UncaughtException ==
  /\ proc = "running"
  /\ fault' = "exception"
  /\ proc' = "exited"
  /\ UNCHANGED <<scan, full, samplerVars, agentVars>>

\* a promise rejected with no handler reaches the 'unhandledRejection'
\* handler, which logs it
UnhandledRejection ==
  /\ proc = "running"
  /\ fault' = "rejection"
  /\ UNCHANGED <<proc, scan, full, samplerVars, agentVars>>

\* the constructor of the socket throws in the _connectWebSocket() of
\* start(): start() has installed the identity interval and rejects, and
\* the handler of agent.start().catch logs and calls process.exit(1)
StartRejected(j, rd) ==
  /\ proc = "running"
  /\ ~stopped
  /\ jobs[j].kind = "infoStart" /\ jobs[j].pc = "gather"
  /\ info' = [BasicInfoOf(cgroup, rd, config, host) EXCEPT !.sent = "ok"]
  /\ jobs' = [jobs EXCEPT ![j] = IdleJob]
  /\ infoTimer' = TRUE
  /\ infoIntervals' = infoIntervals + 1
  /\ fault' = "start"
  /\ proc' = "exited"
  /\ UNCHANGED <<scan, full, config, host, cgroup, resolves, prev, snap, frame,
                 stopped, ws, conn, reportTimer, reconn, clock, wire, awaitingOpen,
                 attempts>>

\* SIGINT or SIGTERM: the handler calls agent.stop() and process.exit(0)
Signal ==
  /\ proc = "running"
  /\ stopped' = TRUE
  /\ infoIntervals' = IF infoTimer THEN infoIntervals - 1 ELSE infoIntervals
  /\ infoTimer' = FALSE
  /\ reportTimer' = FALSE
  /\ conn' = IF ws # 0 /\ conn[ws] \in {"connecting", "open"}
             THEN [conn EXCEPT ![ws] = "closing"] ELSE conn
  /\ ws' = 0
  /\ proc' = "exited"
  /\ UNCHANGED <<fault, scan, full, config, host, cgroup, resolves, prev, snap,
                 frame, info, reconn, jobs, clock, wire, awaitingOpen, attempts>>

\* the agent until the process exits: nothing runs after process.exit
ProcessNext ==
  \/ proc = "running" /\ IdentityNext
  \/ UncaughtException
  \/ UnhandledRejection
  \/ \E j \in JobIds : StartRejected(j, AgentReading)
  \/ Signal

ProcessSpec == Init /\ [][ProcessNext]_vars

(***************************************************************************)
(* The process and thread scan (_getProcessAndThreads).                    *)
(*   A listing of /proc is a sequence of status kinds: entry i is named    *)
(*   EntryName(i), and its kind tells what a read of its status file       *)
(*   gives: "gone" (the read fails), "one", "many", "bare".                *)
(***************************************************************************)
SelfPos == 2

\* what /proc/<pid>/status holds
StatusText(kind) ==
  IF kind = "gone" THEN Missing
  ELSE IF kind = "one"
       THEN Text(<<"N", ":", "\t", "a", NL,
                   "T", "h", "r", "e", "a", "d", "s", ":", "\t", "1", NL>>)
  ELSE IF kind = "many"
       THEN Text(<<"N", ":", "\t", "b", NL,
                   "T", "h", "r", "e", "a", "d", "s", ":", "\t", "1", "2", NL,
                   "P", "i", "d", ":", "\t", "7", NL>>)
  ELSE Text(<<"N", ":", "\t", "c", NL,
              "X", "T", "h", "r", "e", "a", "d", "s", ":", "\t", "5", NL>>)

Listings == UNION {[1..n -> {"gone", "one", "many", "bare"}] : n \in 0..MaxEntries}

\* entries.filter(x => /^\d+$/.test(x)), as positions of the listing: the
\* i-th entry of /proc is named by the pid i, but for the entry "self"
RECURSIVE PidsOf(_, _)
PidsOf(listing, i) ==
  LET name == IF i = SelfPos THEN <<"s", "e", "l", "f">> ELSE NatText(i)
      digitsOnly == name # <<>> /\ \A k \in 1..Len(name) : IsDigit(name[k])
  IN  IF i > Len(listing) THEN <<>>
      ELSE (IF digitsOnly THEN <<i>> ELSE <<>>) \o PidsOf(listing, i + 1)

\* status.match(/^Threads:\s+(\d+)/m) and parseInt(m[1], 10): the number
\* after the first "Threads:" that begins a line and is followed by white
\* space and a digit; 0 (nothing is added) when there is no match
RECURSIVE ThreadsField(_, _)
ThreadsField(s, bol) ==
  IF s = <<>> THEN 0
  ELSE LET key  == <<"T", "h", "r", "e", "a", "d", "s", ":">>
           rest == IF Len(s) >= Len(key) THEN SubSeq(s, Len(key) + 1, Len(s)) ELSE <<>>
           num  == LeadingDigits(TrimLeft(rest))
       IN  IF /\ bol
              /\ Len(s) >= Len(key)
              /\ SubSeq(s, 1, Len(key)) = key
              /\ Len(TrimLeft(rest)) < Len(rest)
              /\ num # <<>>
           THEN MagVal(num)
           ELSE ThreadsField(Tail(s), Head(s) = NL)

\* a scan that counts every entry it has listed
StatusCountsAlways(status) == TRUE

\* `if (!status) continue;`
StatusCounts(status) == ~Falsy(status)

\* a pool of one worker for every pid
WorkerCountUncapped(len) == len

\* Math.min(concurrency, pids.length)
WorkerCount(len) == IF len < Concurrency THEN len ELSE Concurrency

\* _getProcessAndThreads up to the first await of its last worker: the
\* listing is filtered, and the workers take one entry each
ScanStart(listing) ==
  /\ scan.phase \in {"idle", "done"}
  /\ LET pids == PidsOf(listing, 1)
         n    == WorkerCount(Len(pids))
     IN  scan' = [phase |-> IF n = 0 THEN "done" ELSE "running",
                  listing |-> listing, pids |-> pids, idx |-> n,
                  processCount |-> 0, threadCount |-> 0,
                  reading |-> [w \in WorkerIds |-> IF w <= n THEN w ELSE 0],
                  reads |-> [i \in 1..Len(pids) |-> IF i <= n THEN 1 ELSE 0]]
  /\ UNCHANGED <<proc, fault, full, samplerVars, agentVars>>

\* the read of a worker ends: the worker counts the entry unless the read
\* gave nothing, and takes the next entry or returns
ReadDone(w) ==
  /\ scan.phase = "running"
  /\ scan.reading[w] # 0
  /\ LET status == StatusText(scan.listing[scan.pids[scan.reading[w]]])
         counts == StatusCounts(status)
         more   == scan.idx < Len(scan.pids)
         rd     == [scan.reading EXCEPT ![w] = IF more THEN scan.idx + 1 ELSE 0]
     IN  scan' = [scan EXCEPT
                    !.processCount = IF counts THEN @ + 1 ELSE @,
                    !.threadCount = IF counts THEN @ + ThreadsField(status.s, TRUE) ELSE @,
                    !.idx = IF more THEN @ + 1 ELSE @,
                    !.reading = rd,
                    !.reads = IF more THEN [@ EXCEPT ![scan.idx + 1] = @ + 1] ELSE @,
                    !.phase = IF \A v \in WorkerIds : rd[v] = 0 THEN "done" ELSE @]
  /\ UNCHANGED <<proc, fault, full, samplerVars, agentVars>>

ScanNext ==
  \/ \E listing \in Listings : ScanStart(listing)
  \/ \E w \in WorkerIds : ReadDone(w)

ScanSpec == Init /\ [][ScanNext]_vars

(***************************************************************************)
(* The disk, connection, process and uptime fields of a snapshot.          *)
(*   The sources of one call are a record of kinds: df (the df             *)
(*   subprocess), tcp, tcp6, udp, udp6, unix (/proc/net), listing          *)
(*   (/proc), policy (uptimeSource), cg1 (/proc/1/cgroup), stat1           *)
(*   (/proc/1/stat), boot (/proc/stat), conf (getconf CLK_TCK) and rd (the *)
(*   cgroup and /proc/net/dev files). SourceText gives the text a source   *)
(*   of a kind holds; Missing is a file that cannot be read or a           *)
(*   subprocess that fails.                                                *)
(***************************************************************************)
NowMs == 2000000
ProcessUptime == RInt(7)

SourceText(kind) ==
  CASE kind = "dfOk" -> Text(<<"F", "S", " ", "1", "K", " ", "U", "s", "e", "d", " ", "A",
            "v", "a", "i", "l", " ", "C", "a", "p", " ", "M", "n", "t",
            NL, "/", "d", "e", "v", "/", "s", "d", "a", "1", " ", "2",
            "0", "4", "8", " ", "5", "1", "2", " ", "1", "5", "3", "6",
            " ", "2", "5", "%", " ", "/", NL>>)
    [] kind = "dfHeader" -> Text(<<"F", "S", " ", "1", "K", " ", "U", "s", "e", "d", " ", "A",
            "v", "a", "i", "l", " ", "C", "a", "p", " ", "M", "n", "t",
            NL>>)
    [] kind = "two" -> Text(<<"s", "l", NL, "0", ":", NL, "1", ":", NL>>)
    [] kind = "hostV2" -> Text(<<"0", ":", ":", "/", NL>>)
    [] kind = "hostV1" -> Text(<<"2", ":", "c", "p", "u", ":", "/", NL, "1", ":", "n", ":",
            "/", NL>>)
    [] kind = "container" -> Text(<<"0", ":", ":", "/", "d", "o", "c", "k", "e", "r", "/", "a",
            "b", NL>>)
    [] kind = "mixed" -> Text(<<"2", ":", "c", "p", "u", ":", "/", NL, "1", ":", "n", ":",
            "/", "d", NL>>)
    [] kind = "statGood" -> Text(<<"1", " ", "(", "i", "n", "i", "t", ")", " ", "S", " ", "0",
            " ", "1", " ", "1", " ", "0", " ", "-", "1", " ", "6", " ",
            "7", " ", "8", " ", "9", " ", "1", "0", " ", "1", "1", " ",
            "1", "2", " ", "1", "3", " ", "1", "4", " ", "2", "0", " ",
            "0", " ", "1", " ", "0", " ", "5", "0", "0", "0", " ", "4",
            "0", "9", "6", "0", "0", "0", " ", "9", NL>>)
    [] kind = "statSpaced" -> Text(<<"1", " ", "(", "a", " ", "b", ")", " ", "c", ")", " ", "S",
            " ", "0", " ", "1", " ", "1", " ", "0", " ", "-", "1", " ",
            "6", " ", "7", " ", "8", " ", "9", " ", "1", "0", " ", "1",
            "1", " ", "1", "2", " ", "1", "3", " ", "1", "4", " ", "2",
            "0", " ", "0", " ", "1", " ", "0", " ", "5", "0", "0", "0",
            " ", "4", "0", "9", "6", "0", "0", "0", " ", "9", NL>>)
    [] kind = "statNoParen" -> Text(<<"1", " ", "i", "n", "i", "t", " ", "S", " ", "0", " ", "1",
            NL>>)
    [] kind = "statShort" -> Text(<<"1", " ", "(", "s", "h", ")", " ", "S", " ", "0", " ", "1",
            NL>>)
    [] kind = "bootGood" -> Text(<<"c", "p", "u", " ", "1", " ", "2", NL, "b", "t", "i", "m",
            "e", " ", "1", "0", "0", "0", NL>>)
    [] kind = "bootNoBtime" -> Text(<<"c", "p", "u", " ", "1", " ", "2", NL>>)
    [] kind = "conf100" -> Text(<<"1", "0", "0", NL>>)
    [] OTHER -> Missing

\* Number(x) of an array element: NaN for undefined and for a text that is
\* not a decimal integer with an optional sign
JsNumber(x) ==
  LET t    == Trim(x.s)
      neg  == t # <<>> /\ Head(t) = "-"
      body == IF neg THEN Tail(t) ELSE t
  IN  IF ~x.ok THEN Rat(0, 0)
      ELSE IF t = <<>> THEN RInt(0)
      ELSE IF body # <<>> /\ \A i \in 1..Len(body) : IsDigit(body[i])
           THEN RInt(IF neg THEN 0 - MagVal(LeadingDigits(body))
                     ELSE MagVal(LeadingDigits(body)))
      ELSE Rat(0, 0)

\* statBoot.match(/^btime\s+(\d+)$/m) and Number(btimeMatch[1]): the number
\* after the first "btime" that begins a line, is followed by white space
\* and digits and ends its line; -1 when there is no match
RECURSIVE BtimeField(_, _)
BtimeField(s, bol) ==
  IF s = <<>> THEN 0 - 1
  ELSE LET key  == <<"b", "t", "i", "m", "e">>
           rest == IF Len(s) >= Len(key) THEN SubSeq(s, Len(key) + 1, Len(s)) ELSE <<>>
           body == TrimLeft(rest)
           num  == LeadingDigits(body)
       IN  IF /\ bol
              /\ Len(s) >= Len(key)
              /\ SubSeq(s, 1, Len(key)) = key
              /\ Len(body) < Len(rest)
              /\ num # <<>>
              /\ (Len(body) = Len(num) \/ body[Len(num) + 1] = NL)
           THEN MagVal(num)
           ELSE BtimeField(Tail(s), Head(s) = NL)

\* _pid1UptimeSeconds: threw tells that it rejects
Pid1UptimeSeconds(src) ==
  LET stat1    == SourceText(src.stat1)
      statBoot == SourceText(src.boot)
      conf     == SourceText(src.conf)
      Threw    == [threw |-> TRUE, v |-> RNull]
      rparens  == {i \in 1..Len(stat1.s) : stat1.s[i] = ")"}
      rparen   == CHOOSE i \in rparens : \A k \in rparens : k <= i
      parts    == SplitWS(Trim(SubSeq(stat1.s, rparen + 2, Len(stat1.s))))
      startTicks == JsNumber(Elem(parts, 21))
      btime    == BtimeField(statBoot.s, TRUE)
      v        == JsNumber(Text(Trim(conf.s)))
      clkTck   == IF conf.ok /\ RIsFinite(v) /\ RLess(RInt(0), v) THEN v ELSE RInt(100)
  IN  IF Falsy(stat1) \/ Falsy(statBoot) THEN Threw
      ELSE IF rparens = {} THEN Threw
      ELSE IF ~RIsFinite(startTicks) THEN Threw
      ELSE IF btime < 0 THEN Threw
      ELSE [threw |-> FALSE,
            v |-> RMax(RInt(0), RSub(RSub(Rat(NowMs, 1000), RInt(btime)),
                                     RDiv(startTicks, clkTck)))]

\* _looksLikeHostPid1
LooksLikeHostPid1(src) ==
  LET cg1   == SourceText(src.cg1)
      lines == SelectSeq(SplitLines(Trim(cg1.s)), LAMBDA ln : ln # <<>>)
      EndsWithRoot(ln) == Len(ln) >= 2 /\ SubSeq(ln, Len(ln) - 1, Len(ln)) = <<":", "/">>
  IN  IF Falsy(cg1) THEN FALSE
      ELSE \A i \in 1..Len(lines) :
             lines[i] = <<"0", ":", ":", "/">> \/ EndsWithRoot(lines[i])

\* a rejection of _pid1UptimeSeconds that nothing catches
Pid1Uncaught(r) == r

\* `.catch(() => null)` on _pid1UptimeSeconds()
Pid1Caught(r) == [threw |-> FALSE, v |-> IF r.threw THEN RNull ELSE r.v]

\* _getContainerUptimeSeconds
GetContainerUptimeSeconds(src) ==
  LET Chosen(pid1Uptime) ==
        IF pid1Uptime.threw THEN pid1Uptime
        ELSE IF src.policy = "pid1"
             THEN [threw |-> FALSE, v |-> ROr(pid1Uptime.v, ProcessUptime)]
        ELSE IF LooksLikeHostPid1(src)
             THEN [threw |-> FALSE, v |-> ProcessUptime]
        ELSE [threw |-> FALSE, v |-> ROr(pid1Uptime.v, ProcessUptime)]
  IN  IF src.policy = "process" THEN [threw |-> FALSE, v |-> ProcessUptime]
      ELSE Chosen(Pid1Caught(Pid1UptimeSeconds(src)))

\* _getDiskUsage: a df that fails rejects inside the try block
GetDiskUsage(src) ==
  LET stdout == SourceText(src.df)
      lines  == SplitLines(Trim(stdout.s))
      cols   == SplitWS(lines[2])
      Col(i) == IF i >= 1 /\ i <= Len(cols) THEN Text(cols[i]) ELSE Missing
      Bytes(kb) == IF kb.ok THEN NumOf(IntOf(kb) * 1024) ELSE NumNull
  IN  IF ~stdout.ok \/ Len(lines) < 2
      THEN [totalBytes |-> NumNull, usedBytes |-> NumNull]
      ELSE [totalBytes |-> Bytes(ToInt(Col(Len(cols) - 4))),
            usedBytes |-> Bytes(ToInt(Col(Len(cols) - 3)))]

\* _getConnSummary
GetConnSummary(src) ==
  LET count(kind) ==
        LET t == SourceText(kind)
        IN  IF Falsy(t) THEN 0
            ELSE IF Len(SplitLines(Trim(t.s))) > 1
                 THEN Len(SplitLines(Trim(t.s))) - 1 ELSE 0
  IN  [tcp |-> count(src.tcp) + count(src.tcp6),
       udp |-> count(src.udp) + count(src.udp6),
       unix |-> count(src.unix)]

\* _getProcessAndThreads when the reads end in the order they were started
RECURSIVE ProcessAndThreads(_, _, _)
ProcessAndThreads(listing, pids, acc) ==
  IF pids = <<>> THEN acc
  ELSE LET status == StatusText(listing[Head(pids)])
       IN  ProcessAndThreads(listing, Tail(pids),
             IF StatusCounts(status)
             THEN [processCount |-> acc.processCount + 1,
                   threadCount |-> acc.threadCount + ThreadsField(status.s, TRUE)]
             ELSE acc)

\* the fields snapshot() builds from the results of Promise.all, which
\* rejects when one of its promises rejects; readdir fails (and gives [])
\* or lists four entries, two of which have gone
FullOf(src) ==
  LET listing == IF src.listing = "four" THEN <<"one", "gone", "gone", "many">>
                 ELSE <<>>
      Built(disk, conns, procs, uptime) ==
        IF uptime.threw THEN [NoFull EXCEPT !.called = TRUE, !.src = src]
        ELSE [called |-> TRUE, valid |-> TRUE, src |-> src,
              diskTotal |-> disk.totalBytes, diskUsed |-> disk.usedBytes,
              tcp |-> conns.tcp, udp |-> conns.udp, unix |-> conns.unix,
              processCount |-> procs.processCount,
              threadCount |-> procs.threadCount,
              uptimeSeconds |-> uptime.v]
  IN  Built(GetDiskUsage(src), GetConnSummary(src),
            ProcessAndThreads(listing, PidsOf(listing, 1),
                              [processCount |-> 0, threadCount |-> 0]),
            GetContainerUptimeSeconds(src))

\* the sources of a call: those that differ in what the uptime reads, and
\* those that differ in which of them are unavailable
SnapshotSources ==
  LET good ==
        [df |-> "dfOk", tcp |-> "two", tcp6 |-> "two", udp |-> "two",
         udp6 |-> "two", unix |-> "two", listing |-> "four", policy |-> "auto",
         cg1 |-> "container", stat1 |-> "statGood", boot |-> "bootGood",
         conf |-> "conf100", rd |-> "good"]
  IN  {[good EXCEPT !.policy = p, !.cg1 = c, !.stat1 = s1, !.boot = b, !.conf = g] :
         p \in {"process", "pid1", "auto"},
         c \in {"missing", "hostV2", "hostV1", "container", "mixed"},
         s1 \in {"missing", "statGood", "statSpaced", "statNoParen", "statShort"},
         b \in {"missing", "bootGood", "bootNoBtime"},
         g \in {"missing", "conf100"}}
      \cup
      {[good EXCEPT !.df = d, !.tcp = t4, !.tcp6 = t6, !.udp = u4, !.udp6 = u6,
                    !.unix = ux, !.listing = l, !.stat1 = s1, !.boot = b, !.rd = r] :
         d \in {"missing", "dfOk", "dfHeader"},
         t4 \in {"missing", "two"}, t6 \in {"missing", "two"},
         u4 \in {"missing", "two"}, u6 \in {"missing", "two"},
         ux \in {"missing", "two"},
         l \in {"missing", "four"},
         s1 \in {"missing", "statGood"},
         b \in {"missing", "bootGood"},
         r \in {"missing", "good"}}

\* a call of snapshot() with no other call before it or during it
FullSnapshot(src) ==
  /\ ~full.called
  /\ LET rd   == IF src.rd = "good" THEN AgentReading ELSE NoReading
         desc == DetectCgroup(rd)
     IN  /\ cgroup' = desc
         /\ resolves' = resolves + 1
         /\ full' = FullOf(src)
         /\ IF full'.valid
            THEN /\ \E r \in {Snapshot(prev, desc, NowMs, rd, config, host)} :
                      snap' = r.snap /\ prev' = r.prev
                 /\ frame' = PayloadOf(snap')
            ELSE UNCHANGED <<snap, prev, frame>>
  /\ UNCHANGED <<proc, fault, scan, config, host, info, agentVars>>

FullNext == \E src \in SnapshotSources : FullSnapshot(src)

FullSpec == Init /\ [][FullNext]_vars

(***************************************************************************)
(* The sampler called sequentially, with readings and clock values drawn   *)
(* from bounded sets (the clock may stand still or step back).             *)
(***************************************************************************)
\* _sendReport() from its call of snapshot() to the payload, with no other
\* call in between
SeqReport(now, rd) ==
  LET desc == IF cgroup.mode = "none" THEN DetectCgroup(rd) ELSE cgroup
  IN  /\ cgroup' = desc
      /\ resolves' = IF cgroup.mode = "none" THEN resolves + 1 ELSE resolves
      /\ \E r \in {Snapshot(prev, desc, now, rd, config, host)} :
           snap' = r.snap /\ prev' = r.prev
      /\ frame' = PayloadOf(snap')
      /\ UNCHANGED <<sideVars, config, host, info, stopped, ws, conn, reportTimer, infoTimer,
                     infoIntervals, reconn, jobs, clock, wire, awaitingOpen, attempts>>

\* getBasicInfoForKomari() with no other call in between
SeqBasicInfo(rd) ==
  LET desc == IF cgroup.mode = "none" THEN DetectCgroup(rd) ELSE cgroup
  IN  /\ cgroup' = desc
      /\ resolves' = IF cgroup.mode = "none" THEN resolves + 1 ELSE resolves
      /\ info' = BasicInfoOf(desc, rd, config, host)
      /\ UNCHANGED <<sideVars, config, host, prev, snap, frame, stopped, ws, conn, reportTimer,
                     infoTimer, infoIntervals, reconn, jobs, clock, wire, awaitingOpen,
                     attempts>>

RatesInit ==
  /\ config \in {[includeLoopback |-> b, ramTotalFallback |-> "host"] : b \in BOOLEAN}
  /\ host = DefaultHost
  /\ SamplerInit
  /\ AgentInit
  /\ SideInit

RatesNext == \E now \in SampleTimes, rd \in RateReadings : SeqReport(now, rd)

RatesSpec == RatesInit /\ [][RatesNext]_vars

\* the sampler under either ramTotalFallback, with readings that differ in
\* the memory limit
LimitsInit ==
  /\ config \in {[includeLoopback |-> FALSE, ramTotalFallback |-> f] :
                   f \in {"host", "zero"}}
  /\ host = DefaultHost
  /\ SamplerInit
  /\ AgentInit
  /\ SideInit

LimitsNext ==
  \/ \E now \in LimitTimes, rd \in LimitReadings : SeqReport(now, rd)
  \/ \E rd \in LimitReadings : SeqBasicInfo(rd)

LimitsSpec == LimitsInit /\ [][LimitsNext]_vars


(***************************************************************************)
(* Reconnection.                                                           *)
(***************************************************************************)
\* the step is the 'close' event of socket c, taken while the agent runs
ClosesRunning(c) == conn[c] # "closed" /\ conn'[c] = "closed" /\ ~stopped

\* C1: after every close event while the agent runs, exactly one reconnect
\* timeout is scheduled, with the configured delay; a reconnect timeout fires
\* only after that delay has passed; and from the close event to the next
\* 'open' of a socket the push interval is not running.
C1_ReconnectScheduledOnce ==
  /\ [][\A c \in ConnIds :
          ClosesRunning(c) =>
            /\ Len(reconn') = Len(reconn) + 1
            /\ SubSeq(reconn', 1, Len(reconn)) = reconn
            /\ reconn'[Len(reconn')] = [left |-> ReconnectTicks, age |-> 0]
            /\ ~reportTimer']_vars
  /\ [][Len(reconn') < Len(reconn) => Head(reconn).age = ReconnectTicks]_vars
  /\ [](awaitingOpen => ~reportTimer)

\* a reconnect timeout has fired and connected after a close event, and no
\* socket has opened since
C1_Witness ==
  /\ ~stopped /\ awaitingOpen /\ attempts = 1
  /\ ws # 0 /\ conn[ws] = "connecting"
  /\ ~reportTimer

\* C2: while the agent runs, a pending reconnect timeout is followed by a
\* connection attempt (or by stop()), however many attempts were made
\* before; and every reconnect timeout is set with the same delay.
C2_ReconnectsForever ==
  /\ \A a \in 0..(AttemptsMod - 1) :
       (reconn # <<>> /\ ~stopped /\ attempts = a) ~> (stopped \/ attempts # a)
  /\ [][Len(reconn') > Len(reconn) =>
          reconn'[Len(reconn')].left = ReconnectTicks]_vars

\* the second connection attempt of the reconnect cycle is under way, after
\* the first one was lost as well
C2_Witness ==
  /\ ~stopped /\ attempts = 2 /\ awaitingOpen
  /\ ws # 0 /\ conn[ws] = "connecting"
  /\ \E c \in ConnIds : c # ws /\ conn[c] = "closed"
  /\ reconn = <<>>

(***************************************************************************)
(* Pushes.                                                                 *)
(***************************************************************************)
\* C3: a frame goes to the transport only if this._ws refers to an open
\* socket when send is called; a _sendReport() gathers a snapshot only if it
\* found an open socket on entry; and a _sendReport() that ends starts no
\* other one (a frame that was dropped is not sent again).
C3_PushOnlyWhenOpen ==
  /\ [](\A f \in wire : f.handed <=> f.st = "open")
  /\ [](\A j \in JobIds : jobs[j].kind = "push" => jobs[j].sawOpen)
  /\ [][\A j \in JobIds :
          (jobs[j].kind = "push" /\ jobs'[j].kind # "push") =>
            /\ jobs'[j] = IdleJob
            /\ \A k \in JobIds : jobs'[k].kind = "push" => jobs[k].kind = "push"]_vars

\* a frame was sent, and a frame was dropped because this._ws no longer
\* referred to an open socket when its snapshot had been gathered
C3_Witness ==
  /\ \E f \in wire : f.handed
  /\ \E f \in wire : ~f.handed /\ f.st \in {"null", "connecting", "closing", "closed"}


(***************************************************************************)
(* Rates.                                                                  *)
(***************************************************************************)
\* the rows of /proc/net/dev that a snapshot counts
Counted(sn) ==
  {r \in sn.netRead : r.ncols >= 16 /\ (r.iface # "lo" \/ config.includeLoopback)}

\* the value x is the rate at which a counter went from old to new in the
\* dtMs milliseconds of a snapshot, floored at 0
IsFlooredRate(x, old, new, dtMs) ==
  /\ RIsFinite(x)
  /\ IF new <= old THEN x.n = 0
     ELSE x.n * dtMs = x.d * (new - old) * 1000

\* C4: when time has passed since the previous snapshot, the download and
\* the upload rate of a snapshot are the growth of the cumulative bytes over
\* that time, floored at 0, and the cumulative bytes are the sums over the
\* counted interfaces.
C4_NetRates ==
  (snap.valid /\ snap.seen.set /\ snap.at > snap.seen.at) =>
    /\ snap.totalDownBytes = SumOver(Counted(snap), "rxBytes")
    /\ snap.totalUpBytes = SumOver(Counted(snap), "txBytes")
    /\ IsFlooredRate(snap.downBps, snap.seen.totalRx, snap.totalDownBytes,
                     snap.at - snap.seen.at)
    /\ IsFlooredRate(snap.upBps, snap.seen.totalTx, snap.totalUpBytes,
                     snap.at - snap.seen.at)

\* two snapshots two seconds apart: the received bytes grew by 2001, for a
\* download rate of 1000.5 bytes per second, and the sent bytes fell, for
\* an upload rate of 0
C4_Witness ==
  /\ snap.valid /\ snap.seen.set /\ snap.at = snap.seen.at + 2000
  /\ snap.totalDownBytes = snap.seen.totalRx + 2001
  /\ snap.totalUpBytes < snap.seen.totalTx
  /\ snap.downBps = Rat(2001, 2)
  /\ snap.upBps = RInt(0)

\* the snapshot was computed with a RateState that was not older than it
NoTimeElapsed == snap.valid /\ snap.seen.set /\ snap.at <= snap.seen.at

\* C5 as stated: when no time has passed since the previous RateState, the
\* network rates and the CPU percentages of the snapshot are all exactly 0.
C5_AllRatesZero ==
  NoTimeElapsed =>
    /\ snap.upBps = RInt(0)
    /\ snap.downBps = RInt(0)
    /\ snap.usagePercentOfLimit = RInt(0)
    /\ snap.usagePercentOfHost = RInt(0)

\* C5: when no time has passed since the previous RateState, the network
\* rates of the snapshot are exactly 0 and its CPU percentages are null; the
\* report built from it carries 0 for cpu.usage and for both network rates.
C5_NetZeroCpuNull ==
  NoTimeElapsed =>
    /\ snap.upBps = RInt(0)
    /\ snap.downBps = RInt(0)
    /\ snap.usagePercentOfLimit = RNull
    /\ snap.usagePercentOfHost = RNull
    /\ frame.valid
    /\ frame.cpuUsage = RInt(0)
    /\ frame.netUp = RInt(0)
    /\ frame.netDown = RInt(0)

\* a snapshot taken with the clock one second behind the previous RateState,
\* and the counters and the CPU time it would have computed rates from
C5_Witness ==
  /\ snap.valid /\ snap.seen.set /\ snap.at < snap.seen.at
  /\ snap.totalDownBytes # snap.seen.totalRx
  /\ snap.upBps = RInt(0)
  /\ snap.usagePercentOfLimit = RNull

\* the snapshot was computed without a previous RateState
FirstSnapshot == snap.valid /\ ~snap.seen.set

\* C6 as stated: the first snapshot returns null for the network rates and
\* for the CPU percentages.
C6_AllRatesNull ==
  FirstSnapshot =>
    /\ snap.upBps = RNull
    /\ snap.downBps = RNull
    /\ snap.usagePercentOfLimit = RNull
    /\ snap.usagePercentOfHost = RNull

\* C6: the first snapshot returns null for the CPU percentages and 0 for
\* the network rates, with the cumulative bytes as read.
C6_FirstCpuNullNetZero ==
  FirstSnapshot =>
    /\ snap.usagePercentOfLimit = RNull
    /\ snap.usagePercentOfHost = RNull
    /\ snap.upBps = RInt(0)
    /\ snap.downBps = RInt(0)
    /\ snap.totalDownBytes = SumOver(Counted(snap), "rxBytes")
    /\ snap.totalUpBytes = SumOver(Counted(snap), "txBytes")
    /\ prev.set /\ prev.at = snap.at

\* a first snapshot taken when the clock and the counters are above 0
C6_Witness ==
  /\ FirstSnapshot
  /\ snap.at > 0
  /\ snap.totalDownBytes > 0
  /\ snap.upBps = RInt(0)
  /\ snap.usagePercentOfHost = RNull


\* C7: every overwrite of the RateState stores a timestamp strictly greater
\* than the one it replaces.
C7_AtStrictlyIncreasing ==
  [][(prev.set /\ prev' # prev) => prev'.at > prev.at]_vars

\* C8: cpu.usage of every report is a number from 0 to 999.
C8_CpuUsageInRange ==
  frame.valid =>
    /\ RIsFinite(frame.cpuUsage)
    /\ ~RLess(frame.cpuUsage, RInt(0))
    /\ ~RLess(RInt(999), frame.cpuUsage)

(***************************************************************************)
(* Limits.                                                                 *)
(***************************************************************************)
\* the memory limit read is unbounded or unreadable: the file is missing,
\* memory.max holds "max", or memory.limit_in_bytes holds the sentinel
Unbounded(mode, limRead) ==
  \/ ~limRead.ok
  \/ mode = "v2" /\ Trim(limRead.s) = MaxText
  \/ mode = "v1" /\ limRead = V1Unlimited

\* what ramTotalFallback asks for
Policy ==
  IF config.ramTotalFallback = "host" THEN host.totalmem
  ELSE [ok |-> TRUE, neg |-> FALSE, mag |-> <<>>]

\* C9: when the memory limit is unbounded or unreadable, the memory limit
\* of the snapshot (memLimitBytes and ram.total) and mem_total of the
\* identity body are the host's total memory under "host" and 0 under
\* "zero", and they are not 0 under "host".
C9_MemLimitFallback ==
  /\ (snap.valid /\ Unbounded(snap.cgroupMode, snap.limRead)) =>
       /\ snap.memLimitBytes = Policy
       /\ snap.ramTotal = Policy
       /\ frame.ramTotal = Policy
       /\ config.ramTotalFallback = "host" => MagVal(snap.memLimitBytes.mag) > 0
  /\ (info.valid /\ Unbounded(info.cgroupMode, info.limRead)) =>
       /\ info.mem_total = Policy
       /\ config.ramTotalFallback = "host" => MagVal(info.mem_total.mag) > 0

\* under "zero", a snapshot of the legacy interface that read the sentinel
\* and an identity body whose read of the limit failed
C9_Witness ==
  /\ config.ramTotalFallback = "zero"
  /\ snap.valid /\ snap.cgroupMode = "v1" /\ snap.limRead = V1Unlimited
  /\ snap.memLimitBytes = NumZero
  /\ info.valid /\ ~info.limRead.ok
  /\ info.mem_total = NumZero

\* C10: the cgroup descriptor is assigned at most once.
C10_ResolvedOnce == resolves <= 1


(***************************************************************************)
(* Lifecycle and connections.                                              *)
(***************************************************************************)
\* the sockets that are connecting or open
Live == {c \in ConnIds : conn[c] \in {"connecting", "open"}}

\* C12: while the agent is stopped, no identity interval and no push
\* interval is running and no socket is connecting or open.
C12_QuietWhileStopped ==
  stopped => (~infoTimer /\ infoIntervals = 0 /\ ~reportTimer /\ Live = {})

\* the calls of snapshot() in flight
Sampling == {j \in JobIds : jobs[j].kind \in {"warm", "push"}}

\* C18: at most one call of snapshot() is in flight.
C18_OneSnapshotInFlight == Cardinality(Sampling) <= 1

\* C19: at most one socket is connecting or open.
C19_OneLiveConnection == Cardinality(Live) <= 1

\* the step is the 'error' event of socket c, taken while the agent runs
ErrorsRunning(c) ==
  /\ ~stopped /\ ~stopped'
  /\ conn[c] \in {"connecting", "open"} /\ conn'[c] = "closing"

\* C20: the step of an error event while the agent runs cancels the push
\* interval and sets the reconnect timeout.
C20_ErrorSchedulesReconnect ==
  [][\A c \in ConnIds :
       ErrorsRunning(c) => (~reportTimer' /\ Len(reconn') = Len(reconn) + 1)]_vars


(***************************************************************************)
(* Loopback.                                                               *)
(***************************************************************************)
\* the well-formed rows a snapshot read: of the loopback interface, and of
\* the other interfaces
LoRows(sn) == {r \in sn.netRead : r.iface = "lo" /\ r.ncols >= 16}
OtherRows(sn) == {r \in sn.netRead : r.iface # "lo" /\ r.ncols >= 16}

\* C16: the totals of a snapshot are the counters of every well-formed row
\* of the other interfaces, plus those of the loopback row if and only if
\* includeLoopback is set; the rates are computed from these totals.
C16_LoopbackIffIncluded ==
  snap.valid =>
    /\ snap.totalDownBytes =
         SumOver(OtherRows(snap), "rxBytes")
           + (IF config.includeLoopback THEN SumOver(LoRows(snap), "rxBytes") ELSE 0)
    /\ snap.totalUpBytes =
         SumOver(OtherRows(snap), "txBytes")
           + (IF config.includeLoopback THEN SumOver(LoRows(snap), "txBytes") ELSE 0)
    /\ \A r \in snap.netRead :
         r \in snap.kept <=> (r \in OtherRows(snap)
                                \/ (config.includeLoopback /\ r \in LoRows(snap)))
    /\ (snap.seen.set /\ snap.at > snap.seen.at) =>
         IsFlooredRate(snap.downBps, snap.seen.totalRx, snap.totalDownBytes,
                       snap.at - snap.seen.at)

\* with includeLoopback set, a snapshot whose totals hold the 70 bytes of
\* the loopback row on top of the 1000 and 0 received on eth0 and eth1
C16_Witness ==
  /\ config.includeLoopback
  /\ snap.valid
  /\ LoRows(snap) # {} /\ LoRows(snap) \subseteq snap.kept
  /\ snap.totalDownBytes = 1070


(***************************************************************************)
(* Identity pushes.                                                        *)
(***************************************************************************)
\* the step ends the uploadBasicInfo() of job j, and it has thrown
UploadFails(j) ==
  /\ jobs[j].kind \in {"infoStart", "infoTick"} /\ jobs[j].pc = "gather"
  /\ jobs'[j] # jobs[j]
  /\ info'.sent \in {"network", "http"}

\* the step ends the warmup snapshot of job j
WarmEnds(j) ==
  jobs[j].kind = "warm" /\ jobs[j].pc = "gather" /\ jobs'[j] # jobs[j]

\* C13: an uploadBasicInfo() that throws starts no other upload and leaves
\* the identity interval as it was; when it is the upload of start(),
\* start() still installs the identity interval and, unless stopped, opens
\* a socket; and start() goes on to that upload whether the warmup snapshot
\* returned or threw.
C13_FailedUploadNoRetry ==
  /\ [][\A j \in JobIds :
          UploadFails(j) =>
            /\ jobs'[j] = IdleJob
            /\ \A k \in JobIds \ {j} : jobs'[k] = jobs[k]
            /\ jobs[j].kind = "infoTick" =>
                 (infoTimer' = infoTimer /\ infoIntervals' = infoIntervals)
            /\ jobs[j].kind = "infoStart" =>
                 /\ infoTimer' /\ infoIntervals' = infoIntervals + 1
                 /\ ~stopped => (ws' # 0 /\ conn[ws'] = "closed" /\ conn'[ws'] = "connecting")]_vars
  /\ [][\A j \in JobIds :
          WarmEnds(j) => (jobs'[j].kind = "infoStart" /\ infoIntervals' = infoIntervals)]_vars

\* the warmup snapshot and the upload of start() have both failed, and the
\* identity interval runs and a socket is connecting
C13_Witness ==
  /\ ~stopped /\ ~snap.valid /\ ~prev.set
  /\ info.valid /\ info.sent = "network"
  /\ infoTimer /\ infoIntervals = 1
  /\ ws # 0 /\ conn[ws] = "connecting"
  /\ \A j \in JobIds : jobs[j] = IdleJob


(***************************************************************************)
(* Failures that reach the top-level handlers.                             *)
(***************************************************************************)
\* C17: once an uncaught exception, an unhandled rejection or a rejection of
\* agent.start() has reached its top-level handler, the process has exited.
C17_FailureTerminates == fault # "none" => proc = "exited"


(***************************************************************************)
(* The process and thread scan.                                            *)
(***************************************************************************)
\* the numeric entries of the listing whose status can be read
Readable(listing) == {i \in 1..Len(listing) : i # SelfPos /\ listing[i] # "gone"}

\* the thread count a status of each kind shows
ThreadsShown(kind) == IF kind = "one" THEN 1 ELSE IF kind = "many" THEN 12 ELSE 0

RECURSIVE ThreadsSum(_, _)
ThreadsSum(listing, is) ==
  IF is = {} THEN 0
  ELSE LET i == CHOOSE x \in is : TRUE
       IN  ThreadsShown(listing[i]) + ThreadsSum(listing, is \ {i})

\* C14: whatever the order in which the reads of the workers end, no entry
\* is read by two workers, and the scan returns as process count the number
\* of numeric entries whose status could be read and as thread count the
\* sum of the Threads fields of those entries; an entry whose status could
\* not be read adds to neither.
C14_ScanCountsReadable ==
  /\ \A v, w \in WorkerIds :
       (v # w /\ scan.reading[v] # 0) => scan.reading[v] # scan.reading[w]
  /\ scan.phase = "done" =>
       /\ scan.processCount = Cardinality(Readable(scan.listing))
       /\ scan.threadCount = ThreadsSum(scan.listing, Readable(scan.listing))

\* a scan of more pids than workers has returned; one of its pids had gone
C14_Witness ==
  /\ scan.phase = "done"
  /\ Len(scan.pids) > Concurrency
  /\ \E i \in 1..Len(scan.listing) : i # SelfPos /\ scan.listing[i] = "gone"
  /\ scan.processCount = 2
  /\ scan.threadCount = 13


(***************************************************************************)
(* Uptime.                                                                 *)
(***************************************************************************)
\* the membership record of PID 1 shows only root-level paths
HostRecord(src) == src.cg1 \in {"hostV2", "hostV1"}

\* the records the uptime of PID 1 is computed from are readable and well
\* formed
RecordsGood(src) == src.stat1 \in {"statGood", "statSpaced"} /\ src.boot = "bootGood"

\* the uptime of PID 1 the records show: PID 1 started 5000 ticks of 1/100 s
\* after the boot at 1000 s, and it is now 2000 s
Pid1UptimeShown == RInt(950)

\* C15: the uptime resolution returns, for every policy and all records, a
\* number that is at least 0; under the policy auto it is the process uptime
\* when the membership record of PID 1 shows only root-level paths,
\* otherwise the uptime of PID 1 when its records are readable and well
\* formed, and the process uptime when they are not.
C15_UptimeResolved ==
  full.called =>
    /\ full.valid
    /\ RIsFinite(full.uptimeSeconds)
    /\ ~RLess(full.uptimeSeconds, RInt(0))
    /\ full.src.policy = "auto" =>
         full.uptimeSeconds =
           IF HostRecord(full.src) THEN ProcessUptime
           ELSE IF RecordsGood(full.src) THEN Pid1UptimeShown
           ELSE ProcessUptime


(***************************************************************************)
(* Unavailable sources.                                                    *)
(***************************************************************************)
\* the lines after the header a connection table of a kind holds
RowsShown(kind) == IF kind = "two" THEN 2 ELSE 0

\* C11: snapshot() returns for every combination of unavailable sources,
\* and every group of fields shows what its own sources hold, whatever the
\* other sources do: the disk fields are null when df fails or prints no
\* data line, a connection table that cannot be read counts 0, a /proc that
\* cannot be listed gives 0 processes and threads and a pid that has gone is
\* left out, the uptime is the process uptime when the records of PID 1
\* cannot be read, and the cgroup and network fields are null and 0 when
\* their files are missing.
C11_SourcesDegradeAlone ==
  full.called =>
    /\ full.valid
    /\ snap.valid
    /\ full.diskTotal = IF full.src.df = "dfOk" THEN NumOf(2097152) ELSE NumNull
    /\ full.diskUsed = IF full.src.df = "dfOk" THEN NumOf(524288) ELSE NumNull
    /\ full.tcp = RowsShown(full.src.tcp) + RowsShown(full.src.tcp6)
    /\ full.udp = RowsShown(full.src.udp) + RowsShown(full.src.udp6)
    /\ full.unix = RowsShown(full.src.unix)
    /\ full.processCount = IF full.src.listing = "four" THEN 2 ELSE 0
    /\ full.threadCount = IF full.src.listing = "four" THEN 13 ELSE 0
    /\ RIsFinite(full.uptimeSeconds)
    /\ ~RecordsGood(full.src) => full.uptimeSeconds = ProcessUptime
    /\ snap.cgroupMode = IF full.src.rd = "good" THEN "v2" ELSE "v1"
    /\ snap.ramUsed = IF full.src.rd = "good" THEN NumOf(4096) ELSE NumNull
    /\ snap.totalDownBytes = IF full.src.rd = "good" THEN 1000 ELSE 0
    /\ snap.totalUpBytes = IF full.src.rd = "good" THEN 500 ELSE 0

\* a snapshot taken while df fails, /proc/net/tcp and the records of PID 1
\* cannot be read and two pids have gone shows the other fields
C11_Witness ==
  /\ full.called /\ full.valid /\ snap.valid
  /\ full.src.df = "missing" /\ full.diskTotal = NumNull
  /\ full.src.tcp = "missing" /\ full.src.tcp6 = "two" /\ full.tcp = 2
  /\ full.src.stat1 = "missing" /\ full.uptimeSeconds = ProcessUptime
  /\ full.src.listing = "four" /\ full.processCount = 2
  /\ full.src.rd = "good" /\ snap.totalDownBytes = 1000


(***************************************************************************)
(* Superseded sockets.                                                     *)
(***************************************************************************)
\* the step is the 'close' event of socket c, which this._ws does not refer
\* to, taken while the agent runs and the socket this._ws refers to is open
ClosesSuperseded(c) ==
  /\ conn[c] # "closed" /\ conn'[c] = "closed"
  /\ ~stopped
  /\ ws # 0 /\ c # ws /\ conn[ws] = "open"

\* C21: the close event of a superseded socket, while the agent runs and
\* its current socket is open, leaves the push interval of the current
\* socket running and sets no reconnect timeout.
C21_SupersededCloseIgnored ==
  [][\A c \in ConnIds :
       ClosesSuperseded(c) => (reportTimer' = reportTimer /\ reconn' = reconn)]_vars


(***************************************************************************)
(* CPU percentages.                                                        *)
(***************************************************************************)
\* the value x is the share, in percent and floored at 0, that dCpu seconds
\* of CPU time are of dtMs milliseconds on the given number of cores
IsFlooredPercent(x, dCpu, dtMs, cores) ==
  /\ RIsFinite(x)
  /\ IF RLess(dCpu, RInt(0)) THEN x = RInt(0)
     ELSE x = RDiv(RMul(dCpu, RInt(100000)), RMul(RInt(dtMs), cores))

\* C22: when time has passed since the previous snapshot, the CPU percent of
\* limit and of host of a snapshot are the growth of the cumulative CPU
\* seconds over that time and over the core count (the limit, or the host's
\* cores when there is no limit), times 100, floored at 0.
C22_CpuPercentFloored ==
  (/\ snap.valid /\ snap.seen.set /\ snap.at > snap.seen.at
   /\ prev.at = snap.at
   /\ RLess(RInt(0), ROr(snap.limitCores, RInt(host.cores)))) =>
    /\ IsFlooredPercent(snap.usagePercentOfHost,
                        RSub(prev.cpuUsageSeconds, snap.seen.cpuUsageSeconds),
                        snap.at - snap.seen.at, RInt(host.cores))
    /\ IsFlooredPercent(snap.usagePercentOfLimit,
                        RSub(prev.cpuUsageSeconds, snap.seen.cpuUsageSeconds),
                        snap.at - snap.seen.at,
                        ROr(snap.limitCores, RInt(host.cores)))


(***************************************************************************)
(* The swap limit of the legacy interface.                                 *)
(***************************************************************************)
\* C23: under the legacy interface, when the memory limit file was read,
\* the swap limit of a snapshot is the combined limit less the limit that
\* file holds, floored at 0, under either ramTotalFallback; and it is 0
\* when the combined limit could not be read.
C23_SwapLimitFromFiles ==
  (snap.valid /\ snap.cgroupMode = "v1") =>
    /\ ~ToInt(snap.mswRead).ok => snap.swapLimitBytes = NumZero
    /\ (ToInt(snap.mswRead).ok /\ ToInt(snap.limRead).ok) =>
         snap.swapLimitBytes = NumMax0Diff(ToInt(snap.mswRead), ToInt(snap.limRead))


(***************************************************************************)
(* The reads of the process and thread scan.                               *)
(***************************************************************************)
\* the workers whose read is in flight
InFlight == {w \in WorkerIds : scan.reading[w] # 0}

\* C24: at no time are more reads in flight than the concurrency of the
\* scan allows or is the status of a pid read twice, and when the scan
\* returns the status of every listed pid has been read once, whatever the
\* order in which the reads end and however many pids there are.
C24_EveryPidReadOnce ==
  /\ Cardinality(InFlight) <= Concurrency
  /\ \A i \in 1..Len(scan.pids) : scan.reads[i] <= 1
  /\ \A v, w \in InFlight : v # w => scan.reading[v] # scan.reading[w]
  /\ \A w \in InFlight : scan.reads[scan.reading[w]] = 1
  /\ scan.phase = "done" =>
       /\ InFlight = {}
       /\ scan.idx = Len(scan.pids)
       /\ \A i \in 1..Len(scan.pids) : scan.reads[i] = 1

\* a scan of more pids than the concurrency allows reads at once is under
\* way: a worker has counted its first pid and is reading the pid it took
\* next from the shared index, while the other workers are still reading
C24_Witness ==
  /\ scan.phase = "running"
  /\ Len(scan.pids) > Concurrency
  /\ Cardinality(InFlight) = Concurrency
  /\ scan.idx = Concurrency + 1
  /\ \E w \in InFlight : scan.reading[w] = scan.idx
  /\ scan.reads[scan.idx] = 1
  /\ scan.processCount = 1


(***************************************************************************)
(* The uptime of PID 1.                                                    *)
(***************************************************************************)
\* C25: under the policy pid1, when the records of PID 1 are readable and
\* well formed, the uptime of a snapshot is the time from the start of
\* PID 1 (the boot time plus the start time field of its stat record, the
\* 22nd, over the ticks per second) to now, floored at 0, also when the
\* command name holds spaces and parentheses.
C25_Pid1UptimeFromStartTime ==
  (full.called /\ full.src.policy = "pid1" /\ RecordsGood(full.src)) =>
    /\ full.valid
    /\ full.uptimeSeconds = Pid1UptimeShown


(***************************************************************************)
(* Identity pushes and the RateState.                                      *)
(***************************************************************************)
\* the step is taken by the uploadBasicInfo() of job j: its call, the end
\* of its cgroup detection, or its end
IdentityStep(j) ==
  \/ jobs[j].kind \in {"infoStart", "infoTick"} /\ jobs'[j] # jobs[j]
  \/ jobs[j].kind = "idle" /\ jobs'[j].kind = "infoTick"

\* the step ends the snapshot() of a report
PushEnds(j) == jobs[j].kind = "push" /\ jobs[j].pc = "gather" /\ jobs'[j] # jobs[j]

\* C26: no step of an identity push changes the RateState, the clock, the
\* snapshot returned last or a resolved cgroup descriptor, whatever runs
\* beside it; and every snapshot of a report is computed from the RateState
\* the last snapshot left and leaves its own, so that its rates are those of
\* a run with no identity push.
C26_IdentityLeavesRateState ==
  /\ [][\A j \in JobIds :
          IdentityStep(j) =>
            /\ prev' = prev
            /\ snap' = snap
            /\ frame' = frame
            /\ clock' = clock
            /\ cgroup.mode # "none" => cgroup' = cgroup]_vars
  /\ [][\A j \in JobIds :
          PushEnds(j) =>
            /\ snap'.seen = prev
            /\ prev'.set /\ prev'.at = snap'.at
            /\ info' = info]_vars

\* an identity push and the snapshot of a report are in flight together,
\* after a report and an identity push have ended
C26_Witness ==
  /\ prev.set /\ frame.valid /\ info.valid
  /\ \E j, k \in JobIds :
       /\ jobs[j].kind = "infoTick" /\ jobs[j].pc = "gather"
       /\ jobs[k].kind = "push" /\ jobs[k].pc = "gather"

=============================================================================
